---- MODULE Spec2Model ----
(***************************************************************************)
(* Model of the scroll-driven scene of src/app/page.tsx (Home, lines       *)
(* 13-557): the virtual scroll position, the five-phase branch chain of    *)
(* the wheel and keydown handlers, the continuous outputs written by       *)
(* updateTextPosition, the EL CAPITAN title state machine with its         *)
(* setTimeout callbacks, the secondary video, the asynchronous setup and   *)
(* the two passes of the effect; and of the pointer remap of ImagePlane in *)
(* src/components/ui/reveal-wave-image.tsx.                                *)
(*                                                                         *)
(* Lengths are CSS pixels.  JavaScript numbers are modelled as exact       *)
(* rationals <<numerator, denominator>> in lowest terms; positions and     *)
(* wheel deltas are integers, and the viewport heights are even so that    *)
(* window.innerHeight * 0.5 is an integer.                                 *)
(***************************************************************************)
EXTENDS Integers, Sequences, FiniteSets, TLC

\* ------------------------------------------------------------- bounds
\* viewport heights window.innerHeight may take, and those it has when the
\* effect runs
InnerHeights == {10, 20}
SetupHeights == {10}
\* deltaY values of the wheel events
WheelDeltas == {-25, -5, -3, 3, 5, 25}
\* keys of the keydown events ("a" stands for every key the handler ignores)
Keys == {"ArrowDown", "PageDown", "ArrowUp", "PageUp", "Home", "End", "a"}
\* readyState values of the primary video: HAVE_METADATA, HAVE_FUTURE_DATA,
\* HAVE_ENOUGH_DATA
ReadyStates == {1, 3, 4}
\* video.duration of the primary video; 0 stands for a falsy duration (NaN, 0)
Durations == {6}
\* the same where the fallback for a falsy duration is exercised
ReportedDurations == {0, 6}
\* aspect ratios of the reveal image (naturalWidth / naturalHeight)
AspectRatios == {<<1, 2>>, <<1, 1>>, <<2, 1>>}
\* width and height of the three.js viewport
ViewportSizes == {1, 2}
\* normalized device coordinates of the pointer
PointerCoords == {<<-1, 1>>, <<-1, 2>>, <<0, 1>>, <<1, 2>>, <<1, 1>>}
\* at most this many setTimeout callbacks are pending at once
MaxTimers == 2
\* length of the forward pass of a round trip
MaxRoundTrip == 3

\* ---------------------------------------------------------- arithmetic
Abs(x) == IF x < 0 THEN -x ELSE x

Min(a, b) == IF a <= b THEN a ELSE b

Max(a, b) == IF a >= b THEN a ELSE b

RECURSIVE GCD(_, _)
GCD(a, b) == IF b = 0 THEN a ELSE GCD(b, a % b)

\* the rational n/d in lowest terms with a positive denominator
Rat(n, d) ==
  LET g == GCD(Abs(n), Abs(d))
      s == IF d < 0 THEN -1 ELSE 1
  IN  <<(s * n) \div g, (s * d) \div g>>

Q(n) == <<n, 1>>

RAdd(a, b) == Rat(a[1] * b[2] + b[1] * a[2], a[2] * b[2])

RSub(a, b) == Rat(a[1] * b[2] - b[1] * a[2], a[2] * b[2])

RMul(a, b) == Rat(a[1] * b[1], a[2] * b[2])

RDiv(a, b) == Rat(a[1] * b[2], a[2] * b[1])

RLt(a, b) == a[1] * b[2] < b[1] * a[2]

RLe(a, b) == a[1] * b[2] <= b[1] * a[2]

RMin(a, b) == IF RLe(a, b) THEN a ELSE b

RMax(a, b) == IF RLe(a, b) THEN b ELSE a

RAbs(a) == <<Abs(a[1]), a[2]>>

\* ------------------------------------------------- program constants
\* const startOffset = 0.1 (seconds into the primary video)
startOffset == Rat(1, 10)
\* video.duration || 8
FallbackDuration == 8
\* Math.abs(e.deltaY) < 5 is trackpad momentum
MomentumThreshold == 5
\* updateTextPosition: arrivalPoint = 0.6, startOffset = 20, reentryThreshold = 0.3
arrivalPoint == Rat(3, 5)
textStartOffset == Q(20)
\* mutant: the re-entry threshold is 0.2
reentryThreshold_Fifth == Rat(1, 5)

reentryThreshold == Rat(3, 10)
\* useFrame: const easingSpeed = 0.08
easingSpeed == Rat(2, 25)
\* no fragment has been shaded
NoFragment == [gray |-> Q(0), x |-> 0, y |-> 0, uPixelSize |-> 1, bwColor |-> <<>>]
\* Math.abs(currentTime - targetTime) > 0.01
SeekEpsilon == Rat(1, 100)
\* duration of the secondary video, in seconds
TrumpDuration == 4
\* frames rendered by the canvas
MaxFrames == 2

VARIABLES
  innerHeight,            \* window.innerHeight now
  setupHeight,            \* window.innerHeight when the effect ran (history)
  videoScrollMax,         \* the five phase extents and their sum,
  textExitScrollMax,      \*   consts of the effect closure
  elCapitanSlideUpMax,
  elCapitanSlideRightMax,
  trumpVideoFadeMax,
  maxScroll,
  virtualScroll,          \* let virtualScroll
  readyState,             \* video.readyState
  videoDuration,          \* video.duration (0: falsy)
  videoCurrentTime,       \* video.currentTime, a rational
  videoPaused,            \* video.paused
  isReady,                \* React state isReady
  setupPc,                \* where the async setup() is
  listening,              \* wheel/keydown listeners registered
  bodyLocked,             \* document.body.style.overflow = "hidden"
  text,                   \* styles written by updateTextPosition
  elCapitanState,         \* let elCapitanState
  pendingSlideRight,      \* let pendingSlideRight
  showElCapitan,          \* React state showElCapitan (text-reveal trigger)
  elCapitanStyle,         \* transform and opacity of the title element
  timers,                 \* pending setTimeout callbacks, oldest first
  trump,                  \* secondary video: trumpVideoTriggered, styles, media
  trumpReadyState,        \* trumpVideo.readyState
  lastEvent,              \* the handler or callback that ran last (history)
  before,                 \* title state and flag before that step (history)
  lastRaw,                \* position the last handled input asked for (history)
  lastBranch,             \* branch the last handled input took (history)
  rtMode,                 \* round-trip driver: "off", "fwd" or "back"
  rtStack,                \* round trip: deltas applied and outputs before each
  rtExpect,               \* round trip: outputs the last undo has to restore
  rtClamped,              \* round trip: a forward delta was cut by the clamp
  seeks,                  \* video timestamp writes of the last step (history)
  playProbe,              \* how video.play() settled in the last step (history)
  aspectRatio,            \* ImagePlane: aspect ratio of the image, a rational
  viewport,               \* ImagePlane: useThree().viewport, width and height
  pointer,                \* ImagePlane: useThree().pointer, x and y in [-1, 1]
  uMouse,                 \* ImagePlane: the uMouse uniform (pointer UV)
  isMouseInCanvas,        \* RevealWaveImage: React state isMouseInCanvas
  hasEntered,             \* ImagePlane: hasEnteredRef.current
  mouseActive,            \* ImagePlane: mouseActiveRef.current, a rational
  uMouseActive,           \* ImagePlane: the uMouseActive uniform
  uTime,                  \* ImagePlane: the uTime uniform, in frames
  fragment                \* fragment shader: one fragment's inputs and colour

vars == <<innerHeight, setupHeight, videoScrollMax, textExitScrollMax,
          elCapitanSlideUpMax, elCapitanSlideRightMax, trumpVideoFadeMax,
          maxScroll, virtualScroll, readyState, videoDuration,
          videoCurrentTime, videoPaused, isReady, setupPc, listening,
          bodyLocked, text, elCapitanState, pendingSlideRight, showElCapitan,
          elCapitanStyle, timers, trump, trumpReadyState, lastEvent,
          before, lastRaw, lastBranch, rtMode, rtStack, rtExpect, rtClamped,
          seeks, playProbe, aspectRatio, viewport, pointer, uMouse,
          isMouseInCanvas,
          hasEntered, mouseActive, uMouseActive, uTime, fragment>>

extentVars == <<setupHeight, videoScrollMax, textExitScrollMax,
                elCapitanSlideUpMax, elCapitanSlideRightMax,
                trumpVideoFadeMax, maxScroll>>

titleVars == <<elCapitanState, pendingSlideRight, showElCapitan,
               elCapitanStyle, timers>>

rtVars == <<rtMode, rtStack, rtExpect, rtClamped>>

inputHistory == <<lastRaw, lastBranch>>

planeVars == <<aspectRatio, viewport, pointer, uMouse, isMouseInCanvas,
               hasEntered, mouseActive, uMouseActive, uTime, fragment>>

\* ------------------------------------------------------ phase extents
\* mutant: the last phase is given three viewport heights
PhaseExtents_ShortLast(h) ==
  [videoScrollMax |-> 4 * h,
   textExitScrollMax |-> 2 * h,
   elCapitanSlideUpMax |-> 1 * h,
   elCapitanSlideRightMax |-> 1 * h,
   trumpVideoFadeMax |-> 3 * h]

\* the multipliers of window.innerHeight in the effect body
PhaseExtents(h) ==
  [videoScrollMax |-> 4 * h,
   textExitScrollMax |-> 2 * h,
   elCapitanSlideUpMax |-> 1 * h,
   elCapitanSlideRightMax |-> 1 * h,
   trumpVideoFadeMax |-> 4 * h]

TotalScroll(e) ==
  e.videoScrollMax + e.textExitScrollMax + e.elCapitanSlideUpMax
    + e.elCapitanSlideRightMax + e.trumpVideoFadeMax

\* ------------------------------------------------- updateTextPosition
\* mutant: the overlay fades in over the whole exit phase
updateTextPosition_OverlayLinear(progress, exitProgress) ==
  LET reentryProgress == RSub(Q(1), RDiv(exitProgress, reentryThreshold))
      slideProgress == RDiv(progress, arrivalPoint)
      translateY ==
        IF RLt(Q(0), exitProgress)
        THEN IF RLt(reentryThreshold, exitProgress)
             THEN textStartOffset
             ELSE RMul(textStartOffset, RSub(Q(1), reentryProgress))
        ELSE IF RLt(progress, arrivalPoint)
             THEN RMul(textStartOffset, RSub(Q(1), slideProgress))
             ELSE Q(0)
      opacity ==
        IF RLt(Q(0), exitProgress)
        THEN IF RLt(reentryThreshold, exitProgress)
             THEN Q(0)
             ELSE reentryProgress
        ELSE IF RLt(progress, arrivalPoint)
             THEN slideProgress
             ELSE Q(1)
      darkOpacity == RMin(Q(1), exitProgress)
      waveOpacity == RMax(Q(0), RMul(RSub(exitProgress, Rat(1, 2)), Q(2)))
  IN  [translateY |-> translateY,
       opacity |-> opacity,
       darkOpacity |-> darkOpacity,
       waveOpacity |-> waveOpacity,
       pointerEvents |-> IF RLt(Rat(1, 2), waveOpacity) THEN "auto" ELSE "none",
       videoOpacity |-> IF exitProgress = Q(0) THEN Q(1)
                        ELSE RSub(Q(1), exitProgress)]

\* mutant: the reveal image takes the pointer from opacity 0.5 on
updateTextPosition_PointerAtHalf(progress, exitProgress) ==
  LET reentryProgress == RSub(Q(1), RDiv(exitProgress, reentryThreshold))
      slideProgress == RDiv(progress, arrivalPoint)
      translateY ==
        IF RLt(Q(0), exitProgress)
        THEN IF RLt(reentryThreshold, exitProgress)
             THEN textStartOffset
             ELSE RMul(textStartOffset, RSub(Q(1), reentryProgress))
        ELSE IF RLt(progress, arrivalPoint)
             THEN RMul(textStartOffset, RSub(Q(1), slideProgress))
             ELSE Q(0)
      opacity ==
        IF RLt(Q(0), exitProgress)
        THEN IF RLt(reentryThreshold, exitProgress)
             THEN Q(0)
             ELSE reentryProgress
        ELSE IF RLt(progress, arrivalPoint)
             THEN slideProgress
             ELSE Q(1)
      darkOpacity == RMin(Q(1), RMul(exitProgress, Q(2)))
      waveOpacity == RMax(Q(0), RMul(RSub(exitProgress, Rat(1, 2)), Q(2)))
  IN  [translateY |-> translateY,
       opacity |-> opacity,
       darkOpacity |-> darkOpacity,
       waveOpacity |-> waveOpacity,
       pointerEvents |-> IF RLe(Rat(1, 2), waveOpacity) THEN "auto" ELSE "none",
       videoOpacity |-> IF exitProgress = Q(0) THEN Q(1)
                        ELSE RSub(Q(1), exitProgress)]

\* the styles updateTextPosition(progress, exitProgress) writes: the welcome
\* text's translateY (vh) and opacity, the dark overlay's opacity, the reveal
\* image's opacity and pointer-events, the primary video's style opacity
\* mutant: the reveal image fades in over the whole exit instead of its
\* second half
updateTextPosition_RevealEarly(progress, exitProgress) ==
  LET reentryProgress == RSub(Q(1), RDiv(exitProgress, reentryThreshold))
      slideProgress == RDiv(progress, arrivalPoint)
      translateY ==
        IF RLt(Q(0), exitProgress)
        THEN IF RLt(reentryThreshold, exitProgress)
             THEN textStartOffset
             ELSE RMul(textStartOffset, RSub(Q(1), reentryProgress))
        ELSE IF RLt(progress, arrivalPoint)
             THEN RMul(textStartOffset, RSub(Q(1), slideProgress))
             ELSE Q(0)
      opacity ==
        IF RLt(Q(0), exitProgress)
        THEN IF RLt(reentryThreshold, exitProgress)
             THEN Q(0)
             ELSE reentryProgress
        ELSE IF RLt(progress, arrivalPoint)
             THEN slideProgress
             ELSE Q(1)
      darkOpacity == RMin(Q(1), RMul(exitProgress, Q(2)))
      waveOpacity == exitProgress
  IN  [translateY |-> translateY,
       opacity |-> opacity,
       darkOpacity |-> darkOpacity,
       waveOpacity |-> waveOpacity,
       pointerEvents |-> IF RLt(Rat(1, 2), waveOpacity) THEN "auto" ELSE "none",
       videoOpacity |-> IF exitProgress = Q(0) THEN Q(1)
                        ELSE RSub(Q(1), exitProgress)]

updateTextPosition(progress, exitProgress) ==
  LET reentryProgress == RSub(Q(1), RDiv(exitProgress, reentryThreshold))
      slideProgress == RDiv(progress, arrivalPoint)
      translateY ==
        IF RLt(Q(0), exitProgress)
        THEN IF RLt(reentryThreshold, exitProgress)
             THEN textStartOffset
             ELSE RMul(textStartOffset, RSub(Q(1), reentryProgress))
        ELSE IF RLt(progress, arrivalPoint)
             THEN RMul(textStartOffset, RSub(Q(1), slideProgress))
             ELSE Q(0)
      opacity ==
        IF RLt(Q(0), exitProgress)
        THEN IF RLt(reentryThreshold, exitProgress)
             THEN Q(0)
             ELSE reentryProgress
        ELSE IF RLt(progress, arrivalPoint)
             THEN slideProgress
             ELSE Q(1)
      darkOpacity == RMin(Q(1), RMul(exitProgress, Q(2)))
      waveOpacity == RMax(Q(0), RMul(RSub(exitProgress, Rat(1, 2)), Q(2)))
  IN  [translateY |-> translateY,
       opacity |-> opacity,
       darkOpacity |-> darkOpacity,
       waveOpacity |-> waveOpacity,
       pointerEvents |-> IF RLt(Rat(1, 2), waveOpacity) THEN "auto" ELSE "none",
       videoOpacity |-> IF exitProgress = Q(0) THEN Q(1)
                        ELSE RSub(Q(1), exitProgress)]

\* the inline styles of the JSX before any handler ran
InitialText ==
  [translateY |-> Q(20), opacity |-> Q(0), darkOpacity |-> Q(0),
   waveOpacity |-> Q(0), pointerEvents |-> "none", videoOpacity |-> Q(1)]

\* -------------------------------------------------- title state machine
\* a title is the record [state, pending, show, style, timers] of
\* elCapitanState, pendingSlideRight, showElCapitan, the element's style and
\* the pending setTimeout callbacks
StyleBelow == [transform |-> "below", opacity |-> 0]

StyleCenter == [transform |-> "center", opacity |-> 1]

StyleRight == [transform |-> "right", opacity |-> 1]

\* mutant: the slide-right clears the text-reveal trigger
triggerSlideRight_ClearsShow(t) ==
  [t EXCEPT !.state = "sliding-right",
            !.style = StyleRight,
            !.show = FALSE,
            !.timers = Append(t.timers, "exit")]

triggerSlideRight(t) ==
  [t EXCEPT !.state = "sliding-right",
            !.style = StyleRight,
            !.timers = Append(t.timers, "exit")]

\* mutant: the reset leaves a deferred slide-right pending
updateElCapitanPosition_ResetKeepsPending(phase, t) ==
  IF phase = 0 /\ t.state # "hidden"
  THEN [t EXCEPT !.state = "hidden", !.style = StyleBelow, !.show = FALSE]
  ELSE IF phase = 1 /\ t.state = "hidden"
  THEN [t EXCEPT !.state = "sliding-up", !.pending = FALSE,
                 !.style = StyleCenter, !.show = TRUE,
                 !.timers = Append(t.timers, "settle")]
  ELSE IF phase = 2 /\ t.state = "centered"
  THEN triggerSlideRight(t)
  ELSE IF phase = 2 /\ t.state = "sliding-up"
  THEN [t EXCEPT !.pending = TRUE]
  ELSE IF phase = 1 /\ t.state \in {"exited", "sliding-right"}
  THEN [t EXCEPT !.pending = FALSE, !.state = "centered",
                 !.style = StyleCenter, !.show = TRUE]
  ELSE t

\* mutant: the slide-up starts no settle timer
updateElCapitanPosition_NoSettleTimer(phase, t) ==
  IF phase = 0 /\ t.state # "hidden"
  THEN [t EXCEPT !.state = "hidden", !.pending = FALSE,
                 !.style = StyleBelow, !.show = FALSE]
  ELSE IF phase = 1 /\ t.state = "hidden"
  THEN [t EXCEPT !.state = "sliding-up", !.pending = FALSE,
                 !.style = StyleCenter, !.show = TRUE]
  ELSE IF phase = 2 /\ t.state = "centered"
  THEN triggerSlideRight(t)
  ELSE IF phase = 2 /\ t.state = "sliding-up"
  THEN [t EXCEPT !.pending = TRUE]
  ELSE IF phase = 1 /\ t.state \in {"exited", "sliding-right"}
  THEN [t EXCEPT !.pending = FALSE, !.state = "centered",
                 !.style = StyleCenter, !.show = TRUE]
  ELSE t

\* mutant: a slide-right asked for during the slide-up starts at once
updateElCapitanPosition_NoDefer(phase, t) ==
  IF phase = 0 /\ t.state # "hidden"
  THEN [t EXCEPT !.state = "hidden", !.pending = FALSE,
                 !.style = StyleBelow, !.show = FALSE]
  ELSE IF phase = 1 /\ t.state = "hidden"
  THEN [t EXCEPT !.state = "sliding-up", !.pending = FALSE,
                 !.style = StyleCenter, !.show = TRUE,
                 !.timers = Append(t.timers, "settle")]
  ELSE IF phase = 2 /\ t.state \in {"centered", "sliding-up"}
  THEN triggerSlideRight(t)
  ELSE IF phase = 1 /\ t.state \in {"exited", "sliding-right"}
  THEN [t EXCEPT !.pending = FALSE, !.state = "centered",
                 !.style = StyleCenter, !.show = TRUE]
  ELSE t

\* mutant: scrolling back from the right replays the slide-up
updateElCapitanPosition_ReplaySlideUp(phase, t) ==
  IF phase = 0 /\ t.state # "hidden"
  THEN [t EXCEPT !.state = "hidden", !.pending = FALSE,
                 !.style = StyleBelow, !.show = FALSE]
  ELSE IF phase = 1 /\ t.state \in {"hidden", "exited", "sliding-right"}
  THEN [t EXCEPT !.state = "sliding-up", !.pending = FALSE,
                 !.style = StyleCenter, !.show = TRUE,
                 !.timers = Append(t.timers, "settle")]
  ELSE IF phase = 2 /\ t.state = "centered"
  THEN triggerSlideRight(t)
  ELSE IF phase = 2 /\ t.state = "sliding-up"
  THEN [t EXCEPT !.pending = TRUE]
  ELSE t

\* mutant: phaseSignal 2 in the hidden state starts the slide-up
updateElCapitanPosition_SkipSlidesUp(phase, t) ==
  IF phase = 0 /\ t.state # "hidden"
  THEN [t EXCEPT !.state = "hidden", !.pending = FALSE,
                 !.style = StyleBelow, !.show = FALSE]
  ELSE IF phase \in {1, 2} /\ t.state = "hidden"
  THEN [t EXCEPT !.state = "sliding-up", !.pending = FALSE,
                 !.style = StyleCenter, !.show = TRUE,
                 !.timers = Append(t.timers, "settle")]
  ELSE IF phase = 2 /\ t.state = "centered"
  THEN triggerSlideRight(t)
  ELSE IF phase = 2 /\ t.state = "sliding-up"
  THEN [t EXCEPT !.pending = TRUE]
  ELSE IF phase = 1 /\ t.state \in {"exited", "sliding-right"}
  THEN [t EXCEPT !.pending = FALSE, !.state = "centered",
                 !.style = StyleCenter, !.show = TRUE]
  ELSE t

updateElCapitanPosition(phase, t) ==
  IF phase = 0 /\ t.state # "hidden"
  THEN [t EXCEPT !.state = "hidden", !.pending = FALSE,
                 !.style = StyleBelow, !.show = FALSE]
  ELSE IF phase = 1 /\ t.state = "hidden"
  THEN [t EXCEPT !.state = "sliding-up", !.pending = FALSE,
                 !.style = StyleCenter, !.show = TRUE,
                 !.timers = Append(t.timers, "settle")]
  ELSE IF phase = 2 /\ t.state = "centered"
  THEN triggerSlideRight(t)
  ELSE IF phase = 2 /\ t.state = "sliding-up"
  THEN [t EXCEPT !.pending = TRUE]
  ELSE IF phase = 1 /\ t.state = "exited"
  THEN [t EXCEPT !.pending = FALSE, !.state = "centered",
                 !.style = StyleCenter, !.show = TRUE]
  ELSE IF phase = 1 /\ t.state = "sliding-right"
  THEN [t EXCEPT !.pending = FALSE, !.state = "centered",
                 !.style = StyleCenter, !.show = TRUE]
  ELSE t

\* mutant: the callback forgets the deferred slide-right
settleCallback_DropsDeferred(t) ==
  IF t.state = "sliding-up"
  THEN [t EXCEPT !.state = "centered", !.pending = FALSE]
  ELSE t

\* mutant: the deferred slide-right fires without clearing the flag
settleCallback_KeepsFlag(t) ==
  IF t.state = "sliding-up"
  THEN LET c == [t EXCEPT !.state = "centered"]
       IN  IF c.pending
           THEN [triggerSlideRight(c) EXCEPT !.pending = TRUE]
           ELSE c
  ELSE t

\* the callback of the setTimeout started by the slide-up
settleCallback(t) ==
  IF t.state = "sliding-up"
  THEN LET c == [t EXCEPT !.state = "centered"]
       IN  IF c.pending
           THEN triggerSlideRight([c EXCEPT !.pending = FALSE])
           ELSE c
  ELSE t

\* the callback of the setTimeout started by triggerSlideRight
exitCallback(t) ==
  IF t.state = "sliding-right" THEN [t EXCEPT !.state = "exited"] ELSE t

\* ----------------------------------------------------- secondary video
\* a secondary video is the record [triggered, opacity, pointerEvents, paused,
\* currentTime]; rs is trumpVideo.readyState
\* mutant: hiding the secondary video leaves its timestamp where it is
updateTrumpVideo_HideKeepsTime(progress, tv, rs) ==
  IF RLt(Q(0), progress)
  THEN LET shown == IF ~tv.triggered
                    THEN [tv EXCEPT !.triggered = TRUE, !.opacity = 1,
                                    !.pointerEvents = "auto"]
                    ELSE tv
           targetTime == RMul(progress, Q(TrumpDuration))
       IN  IF rs >= 2
           THEN [shown EXCEPT
                   !.paused = TRUE,
                   !.currentTime =
                     IF RLt(SeekEpsilon, RAbs(RSub(shown.currentTime, targetTime)))
                     THEN targetTime ELSE shown.currentTime]
           ELSE shown
  ELSE IF tv.triggered
       THEN [tv EXCEPT !.triggered = FALSE, !.opacity = 0,
                       !.pointerEvents = "none"]
       ELSE tv

updateTrumpVideo(progress, tv, rs) ==
  IF RLt(Q(0), progress)
  THEN LET shown == IF ~tv.triggered
                    THEN [tv EXCEPT !.triggered = TRUE, !.opacity = 1,
                                    !.pointerEvents = "auto"]
                    ELSE tv
           targetTime == RMul(progress, Q(TrumpDuration))
       IN  IF rs >= 2
           THEN [shown EXCEPT
                   !.paused = TRUE,
                   !.currentTime =
                     IF RLt(SeekEpsilon, RAbs(RSub(shown.currentTime, targetTime)))
                     THEN targetTime ELSE shown.currentTime]
           ELSE shown
  ELSE IF tv.triggered
       THEN [tv EXCEPT !.triggered = FALSE, !.opacity = 0,
                       !.pointerEvents = "none",
                       !.currentTime = IF rs >= 2 THEN Q(0) ELSE tv.currentTime]
       ELSE tv

\* history: one write of `to` to the currentTime of video v, which stood at
\* `from`; apart tells whether the two differ by more than the epsilon
SeekRecord(v, from, to, paused) ==
  [video |-> v,
   apart |-> RLt(SeekEpsilon, RAbs(RSub(from, to))),
   paused |-> paused]

\* the writes updateTrumpVideo(progress) issues to trumpVideo.currentTime: the
\* thresholded one of the scrub branch, after pause(), and the `= 0` of the
\* hide branch
trumpSeeks(progress, tv, rs) ==
  LET targetTime == RMul(progress, Q(TrumpDuration))
  IN  IF RLt(Q(0), progress)
      THEN IF rs >= 2 /\ RLt(SeekEpsilon, RAbs(RSub(tv.currentTime, targetTime)))
           THEN <<SeekRecord("secondary", tv.currentTime, targetTime, TRUE)>>
           ELSE <<>>
      ELSE IF tv.triggered /\ rs >= 2
           THEN <<SeekRecord("secondary", tv.currentTime, Q(0), tv.paused)>>
           ELSE <<>>

\* ------------------------------------------------------- branch chains
\* mutant: the phase comparisons are strict, so a boundary position falls
\* into the later phase
wheelBranch_Strict(vs, e, duration) ==
  IF vs < e.videoScrollMax
  THEN LET videoProgress == Rat(vs, e.videoScrollMax)
       IN  [phase |-> 1,
            currentTime |->
              RAdd(startOffset, RMul(RSub(Q(duration), startOffset), videoProgress)),
            progress |-> videoProgress, exitProgress |-> Q(0),
            signal |-> 0, trumpProgress |-> Q(0)]
  ELSE IF vs < e.videoScrollMax + e.textExitScrollMax
  THEN [phase |-> 2, currentTime |-> Q(duration),
        progress |-> Q(1),
        exitProgress |-> Rat(vs - e.videoScrollMax, e.textExitScrollMax),
        signal |-> 0, trumpProgress |-> Q(0)]
  ELSE IF vs < e.videoScrollMax + e.textExitScrollMax + e.elCapitanSlideUpMax
  THEN [phase |-> 3, currentTime |-> Q(duration),
        progress |-> Q(1), exitProgress |-> Q(1),
        signal |-> 1, trumpProgress |-> Q(0)]
  ELSE IF vs < e.videoScrollMax + e.textExitScrollMax + e.elCapitanSlideUpMax
                  + e.elCapitanSlideRightMax
  THEN [phase |-> 4, currentTime |-> Q(duration),
        progress |-> Q(1), exitProgress |-> Q(1),
        signal |-> 2, trumpProgress |-> Q(0)]
  ELSE [phase |-> 5, currentTime |-> Q(duration),
        progress |-> Q(1), exitProgress |-> Q(1),
        signal |-> 2,
        trumpProgress |->
          RMin(Q(1), Rat(vs - e.videoScrollMax - e.textExitScrollMax
                            - e.elCapitanSlideUpMax - e.elCapitanSlideRightMax,
                         e.trumpVideoFadeMax))]

\* what one pass of a handler's if/else chain decides for position vs: the
\* phase taken, the primary video's timestamp, the arguments of
\* updateTextPosition, of updateElCapitanPosition and of updateTrumpVideo.
\* e holds the phase extents, duration is video.duration || 8.
wheelBranch(vs, e, duration) ==
  IF vs <= e.videoScrollMax
  THEN LET videoProgress == Rat(vs, e.videoScrollMax)
       IN  [phase |-> 1,
            currentTime |->
              RAdd(startOffset, RMul(RSub(Q(duration), startOffset), videoProgress)),
            progress |-> videoProgress, exitProgress |-> Q(0),
            signal |-> 0, trumpProgress |-> Q(0)]
  ELSE IF vs <= e.videoScrollMax + e.textExitScrollMax
  THEN [phase |-> 2, currentTime |-> Q(duration),
        progress |-> Q(1),
        exitProgress |-> Rat(vs - e.videoScrollMax, e.textExitScrollMax),
        signal |-> 0, trumpProgress |-> Q(0)]
  ELSE IF vs <= e.videoScrollMax + e.textExitScrollMax + e.elCapitanSlideUpMax
  THEN [phase |-> 3, currentTime |-> Q(duration),
        progress |-> Q(1), exitProgress |-> Q(1),
        signal |-> 1, trumpProgress |-> Q(0)]
  ELSE IF vs <= e.videoScrollMax + e.textExitScrollMax + e.elCapitanSlideUpMax
                  + e.elCapitanSlideRightMax
  THEN [phase |-> 4, currentTime |-> Q(duration),
        progress |-> Q(1), exitProgress |-> Q(1),
        signal |-> 2, trumpProgress |-> Q(0)]
  ELSE [phase |-> 5, currentTime |-> Q(duration),
        progress |-> Q(1), exitProgress |-> Q(1),
        signal |-> 2,
        trumpProgress |->
          RMin(Q(1), Rat(vs - e.videoScrollMax - e.textExitScrollMax
                            - e.elCapitanSlideUpMax - e.elCapitanSlideRightMax,
                         e.trumpVideoFadeMax))]

\* mutant: the keydown chain never passes a progress to updateTrumpVideo
keyBranch_NoTrump(vs, e, duration) ==
  [wheelBranch(vs, e, duration) EXCEPT !.trumpProgress = Q(0)]

\* the same chain as written a second time in handleKeyDown (lines 360-395)
keyBranch(vs, e, duration) ==
  IF vs <= e.videoScrollMax
  THEN LET videoProgress == Rat(vs, e.videoScrollMax)
       IN  [phase |-> 1,
            currentTime |->
              RAdd(startOffset, RMul(RSub(Q(duration), startOffset), videoProgress)),
            progress |-> videoProgress, exitProgress |-> Q(0),
            signal |-> 0, trumpProgress |-> Q(0)]
  ELSE IF vs <= e.videoScrollMax + e.textExitScrollMax
  THEN [phase |-> 2, currentTime |-> Q(duration),
        progress |-> Q(1),
        exitProgress |-> Rat(vs - e.videoScrollMax, e.textExitScrollMax),
        signal |-> 0, trumpProgress |-> Q(0)]
  ELSE IF vs <= e.videoScrollMax + e.textExitScrollMax + e.elCapitanSlideUpMax
  THEN [phase |-> 3, currentTime |-> Q(duration),
        progress |-> Q(1), exitProgress |-> Q(1),
        signal |-> 1, trumpProgress |-> Q(0)]
  ELSE IF vs <= e.videoScrollMax + e.textExitScrollMax + e.elCapitanSlideUpMax
                  + e.elCapitanSlideRightMax
  THEN [phase |-> 4, currentTime |-> Q(duration),
        progress |-> Q(1), exitProgress |-> Q(1),
        signal |-> 2, trumpProgress |-> Q(0)]
  ELSE [phase |-> 5, currentTime |-> Q(duration),
        progress |-> Q(1), exitProgress |-> Q(1),
        signal |-> 2,
        trumpProgress |->
          RMin(Q(1), Rat(vs - e.videoScrollMax - e.textExitScrollMax
                            - e.elCapitanSlideUpMax - e.elCapitanSlideRightMax,
                         e.trumpVideoFadeMax))]

\* mutant: the sign of deltaY is dropped
wheelScroll_AbsDelta(vs, deltaY, max) == Max(0, Min(max, vs + Abs(deltaY)))

\* mutant: the upper clamp is missing
wheelScroll_NoUpperClamp(vs, deltaY, max) == Max(0, vs + deltaY)

\* virtualScroll += e.deltaY; virtualScroll = Math.max(0, Math.min(maxScroll, ...))
wheelScroll(vs, deltaY, max) == Max(0, Min(max, vs + deltaY))

\* mutant: the arrow keys move a whole viewport height
keyScroll_FullStep(vs, key, step, max) ==
  IF key \in {"ArrowDown", "PageDown"} THEN Min(max, vs + 2 * step)
  ELSE IF key \in {"ArrowUp", "PageUp"} THEN Max(0, vs - 2 * step)
  ELSE IF key = "Home" THEN 0
  ELSE max

\* the key branches of handleKeyDown; step is window.innerHeight * 0.5
keyScroll(vs, key, step, max) ==
  IF key \in {"ArrowDown", "PageDown"} THEN Min(max, vs + step)
  ELSE IF key \in {"ArrowUp", "PageUp"} THEN Max(0, vs - step)
  ELSE IF key = "Home" THEN 0
  ELSE max

\* ------------------------------------------------------ state access
Extents ==
  [videoScrollMax |-> videoScrollMax,
   textExitScrollMax |-> textExitScrollMax,
   elCapitanSlideUpMax |-> elCapitanSlideUpMax,
   elCapitanSlideRightMax |-> elCapitanSlideRightMax,
   trumpVideoFadeMax |-> trumpVideoFadeMax]

Title ==
  [state |-> elCapitanState, pending |-> pendingSlideRight,
   show |-> showElCapitan, style |-> elCapitanStyle, timers |-> timers]

SetTitle(t) ==
  /\ elCapitanState' = t.state
  /\ pendingSlideRight' = t.pending
  /\ showElCapitan' = t.show
  /\ elCapitanStyle' = t.style
  /\ timers' = t.timers

\* mutant: no fallback for a falsy duration
Duration_NoFallback == videoDuration

\* video.duration || 8
Duration == IF videoDuration = 0 THEN FallbackDuration ELSE videoDuration

\* no input handled yet
NoBranch ==
  [phase |-> 0, currentTime |-> Q(0), progress |-> Q(0),
   exitProgress |-> Q(0), signal |-> 0, trumpProgress |-> Q(0)]

\* the body of one branch: the timestamp write and the three update calls
\* mutant: the welcome text and overlays are left for a later callback
ApplyBranch_DefersText(b) ==
  /\ lastBranch' = b
  /\ seeks' = <<SeekRecord("primary", videoCurrentTime, b.currentTime, videoPaused)>>
                 \o trumpSeeks(b.trumpProgress, trump, trumpReadyState)
  /\ videoCurrentTime' = b.currentTime
  /\ UNCHANGED text
  /\ SetTitle(updateElCapitanPosition(b.signal, Title))
  /\ trump' = updateTrumpVideo(b.trumpProgress, trump, trumpReadyState)

ApplyBranch(b) ==
  /\ lastBranch' = b
  /\ seeks' = <<SeekRecord("primary", videoCurrentTime, b.currentTime, videoPaused)>>
                 \o trumpSeeks(b.trumpProgress, trump, trumpReadyState)
  /\ videoCurrentTime' = b.currentTime
  /\ text' = updateTextPosition(b.progress, b.exitProgress)
  /\ SetTitle(updateElCapitanPosition(b.signal, Title))
  /\ trump' = updateTrumpVideo(b.trumpProgress, trump, trumpReadyState)

\* history: the step that runs is ev, taken from this title state and flag;
\* only a handled input event writes video timestamps; only the end of setup
\* sees the play() promise settle: rejected when playback was blocked (the
\* video is still paused), resolved when it started
Log(ev) ==
  /\ lastEvent' = ev
  /\ before' = [state |-> elCapitanState, pending |-> pendingSlideRight]
  /\ IF ev \in {"wheel", "key"} THEN TRUE ELSE seeks' = <<>>
  /\ playProbe' = IF ev # "setup" THEN "none"
                  ELSE IF videoPaused THEN "rejected" ELSE "resolved"

\* an input event is delivered: listeners registered, room for a timer
CanDeliver == listening /\ Len(timers) < MaxTimers

\* ------------------------------------------------------------- setup
\* setup() from the readiness promise's resolution up to `await video.play()`:
\* the timestamp write and the play() call, which either starts playback
\* (paused becomes false) or is blocked by the autoplay policy
setupResume(allowed) ==
  [videoCurrentTime |-> startOffset, videoPaused |-> ~allowed,
   setupPc |-> "wait_play"]

\* the closure variables and refs when the effect body (lines 29-402) has run:
\* extents computed from window.innerHeight, listeners registered, native
\* scrolling suppressed
InitClosure ==
  /\ innerHeight \in SetupHeights
  /\ setupHeight = innerHeight
  /\ LET e == PhaseExtents(innerHeight)
     IN  /\ videoScrollMax = e.videoScrollMax
         /\ textExitScrollMax = e.textExitScrollMax
         /\ elCapitanSlideUpMax = e.elCapitanSlideUpMax
         /\ elCapitanSlideRightMax = e.elCapitanSlideRightMax
         /\ trumpVideoFadeMax = e.trumpVideoFadeMax
         /\ maxScroll = TotalScroll(e)
  /\ virtualScroll = 0
  /\ listening = TRUE
  /\ bodyLocked = TRUE
  /\ elCapitanState = "hidden"
  /\ pendingSlideRight = FALSE
  /\ showElCapitan = FALSE
  /\ elCapitanStyle = StyleBelow
  /\ timers = <<>>
  /\ trump = [triggered |-> FALSE, opacity |-> 0, pointerEvents |-> "none",
              paused |-> TRUE, currentTime |-> Q(0)]
  /\ before = [state |-> "hidden", pending |-> FALSE]
  /\ lastRaw = 0
  /\ lastBranch = NoBranch
  /\ seeks = <<>>
  /\ playProbe = "none"
  /\ rtStack = <<>>
  /\ rtExpect = <<>>
  /\ rtClamped = FALSE

\* the state when the effect body and the microtasks it queued have run: with
\* a video already at HAVE_FUTURE_DATA the readiness promise is resolved at
\* once and setup() runs on to `await video.play()`
\* the refs, uniforms and React state of the reveal image before its first
\* frame: uMouse starts at (-10, -10), uMouseActive and mouseActiveRef at 0,
\* hasEnteredRef at true, isMouseInCanvas at false
RefsAtRest ==
  /\ uMouse = [x |-> Q(-10), y |-> Q(-10)]
  /\ isMouseInCanvas = FALSE
  /\ hasEntered = TRUE
  /\ mouseActive = Q(0)
  /\ uMouseActive = Q(0)
  /\ uTime = 0

\* the ImagePlane before its first frame, the pointer at the centre; no
\* fragment is shaded yet
PlaneAtRest ==
  /\ fragment = NoFragment
  /\ aspectRatio = <<2, 1>>
  /\ viewport = [width |-> 1, height |-> 1]
  /\ pointer = [x |-> Q(0), y |-> Q(0)]
  /\ RefsAtRest

Init ==
  /\ InitClosure
  /\ PlaneAtRest
  /\ videoDuration \in Durations
  /\ readyState \in ReadyStates
  /\ \E allowed \in BOOLEAN :
       IF readyState >= 3
       THEN LET r == setupResume(allowed)
            IN  /\ isReady = TRUE
                /\ videoCurrentTime = r.videoCurrentTime
                /\ videoPaused = r.videoPaused
                /\ setupPc = r.setupPc
       ELSE /\ isReady = FALSE
            /\ videoCurrentTime = Q(0)
            /\ videoPaused = TRUE
            /\ setupPc = "wait_canplaythrough"
  /\ text = InitialText
  /\ trumpReadyState = 0
  /\ lastEvent = "env"
  /\ rtMode = "off"

\* the primary video's readyState changes (the video elements are rendered
\* once basePath is set); reaching HAVE_ENOUGH_DATA fires
\* canplaythrough, which resolves setup's readiness promise
ReadyStateChange(r, allowed) ==
  /\ setupPc # "no_base_path"
  /\ r # readyState
  /\ readyState' = r
  /\ IF r = 4 /\ setupPc = "wait_canplaythrough"
     THEN LET c == setupResume(allowed)
          IN  /\ videoCurrentTime' = c.videoCurrentTime
              /\ videoPaused' = c.videoPaused
              /\ setupPc' = c.setupPc
     ELSE UNCHANGED <<videoCurrentTime, videoPaused, setupPc>>
  /\ Log("env")
  /\ UNCHANGED <<innerHeight, extentVars, virtualScroll, videoDuration, isReady,
                 listening, bodyLocked, text, titleVars, trump, trumpReadyState,
                 rtVars, inputHistory, planeVars>>

\* mutant: a rejected play() is not caught and ends setup
SetupFinish_RejectionEscapes ==
  /\ setupPc = "wait_play"
  /\ IF videoPaused
     THEN /\ setupPc' = "failed"
          /\ UNCHANGED <<videoPaused, isReady, text, titleVars, trump,
                         trumpReadyState>>
     ELSE /\ videoPaused' = TRUE
          /\ isReady' = TRUE
          /\ text' = updateTextPosition(Q(0), Q(0))
          /\ SetTitle(updateElCapitanPosition(0, Title))
          /\ trump' = [trump EXCEPT !.paused = TRUE, !.currentTime = Q(0)]
          /\ trumpReadyState' = 0
          /\ setupPc' = "done"
  /\ Log("setup")
  /\ UNCHANGED <<innerHeight, extentVars, virtualScroll, readyState,
                 videoDuration, videoCurrentTime, listening, bodyLocked, rtVars, inputHistory, planeVars>>

\* setup() after `await video.play()`: pause() when the promise resolved, the
\* empty catch when it rejected, then the rest of the function
SetupFinish ==
  /\ setupPc = "wait_play"
  /\ videoPaused' = TRUE
  /\ isReady' = TRUE
  /\ text' = updateTextPosition(Q(0), Q(0))
  /\ SetTitle(updateElCapitanPosition(0, Title))
  /\ trump' = [trump EXCEPT !.paused = TRUE, !.currentTime = Q(0)]
  /\ trumpReadyState' = 0
  /\ setupPc' = "done"
  /\ Log("setup")
  /\ UNCHANGED <<innerHeight, extentVars, virtualScroll, readyState,
                 videoDuration, videoCurrentTime, listening, bodyLocked, rtVars, inputHistory, planeVars>>

\* the secondary video has loaded its current frame (HAVE_CURRENT_DATA)
TrumpLoaded ==
  /\ setupPc # "no_base_path"
  /\ trumpReadyState < 2
  /\ trumpReadyState' = 2
  /\ Log("env")
  /\ UNCHANGED <<innerHeight, extentVars, virtualScroll, readyState,
                 videoDuration, videoCurrentTime, videoPaused, isReady, setupPc,
                 listening, bodyLocked, text, titleVars, trump, rtVars, inputHistory, planeVars>>

\* the window is resized
Resize(h) ==
  /\ h # innerHeight
  /\ innerHeight' = h
  /\ Log("env")
  /\ UNCHANGED <<extentVars, virtualScroll, readyState, videoDuration,
                 videoCurrentTime, videoPaused, isReady, setupPc, listening,
                 bodyLocked, text, titleVars, trump, trumpReadyState, rtVars, inputHistory, planeVars>>

\* mutant: the cleanup removes the listeners and leaves the body styles
Teardown_KeepsBodyLocked ==
  /\ listening
  /\ listening' = FALSE
  /\ Log("teardown")
  /\ UNCHANGED <<innerHeight, extentVars, virtualScroll, readyState,
                 videoDuration, videoCurrentTime, videoPaused, isReady, setupPc,
                 bodyLocked, text, titleVars, trump, trumpReadyState, rtVars,
                 inputHistory, planeVars>>

\* the effect's cleanup function
Teardown ==
  /\ listening
  /\ listening' = FALSE
  /\ bodyLocked' = FALSE
  /\ Log("teardown")
  /\ UNCHANGED <<innerHeight, extentVars, virtualScroll, readyState,
                 videoDuration, videoCurrentTime, videoPaused, isReady, setupPc,
                 text, titleVars, trump, trumpReadyState, rtVars, inputHistory, planeVars>>

\* ------------------------------------------------------ input handlers
\* mutant: the wheel handler does not test the video's readiness
handleWheel_NoReadyCheck(deltaY) ==
  /\ CanDeliver
  /\ IF Abs(deltaY) < MomentumThreshold
     THEN /\ Log("ignored")
          /\ UNCHANGED <<virtualScroll, videoCurrentTime, text, titleVars,
                         trump, inputHistory>>
     ELSE /\ Log("wheel")
          /\ lastRaw' = virtualScroll + deltaY
          /\ virtualScroll' = wheelScroll(virtualScroll, deltaY, maxScroll)
          /\ ApplyBranch(wheelBranch(virtualScroll', Extents, Duration))
  /\ UNCHANGED <<innerHeight, extentVars, readyState, videoDuration,
                 videoPaused, isReady, setupPc, listening, bodyLocked,
                 trumpReadyState, planeVars>>

\* mutant: small deltas are scrolled like any other
handleWheel_NoMomentumFilter(deltaY) ==
  /\ CanDeliver
  /\ IF readyState < 3
     THEN /\ Log("ignored")
          /\ UNCHANGED <<virtualScroll, videoCurrentTime, text, titleVars,
                         trump, inputHistory>>
     ELSE /\ Log("wheel")
          /\ lastRaw' = virtualScroll + deltaY
          /\ virtualScroll' = wheelScroll(virtualScroll, deltaY, maxScroll)
          /\ ApplyBranch(wheelBranch(virtualScroll', Extents, Duration))
  /\ UNCHANGED <<innerHeight, extentVars, readyState, videoDuration,
                 videoPaused, isReady, setupPc, listening, bodyLocked,
                 trumpReadyState, planeVars>>

handleWheel(deltaY) ==
  /\ CanDeliver
  /\ IF readyState < 3 \/ Abs(deltaY) < MomentumThreshold
     THEN /\ Log("ignored")
          /\ UNCHANGED <<virtualScroll, videoCurrentTime, text, titleVars,
                         trump, inputHistory>>
     ELSE /\ Log("wheel")
          /\ lastRaw' = virtualScroll + deltaY
          /\ virtualScroll' = wheelScroll(virtualScroll, deltaY, maxScroll)
          /\ ApplyBranch(wheelBranch(virtualScroll', Extents, Duration))
  /\ UNCHANGED <<innerHeight, extentVars, readyState, videoDuration,
                 videoPaused, isReady, setupPc, listening, bodyLocked,
                 trumpReadyState, planeVars>>

\* the position a key asks for, before the clamp
KeyTarget(vs, key, step, max) ==
  IF key \in {"ArrowDown", "PageDown"} THEN vs + step
  ELSE IF key \in {"ArrowUp", "PageUp"} THEN vs - step
  ELSE IF key = "Home" THEN 0
  ELSE max

handleKeyDown(key) ==
  /\ CanDeliver
  /\ IF readyState < 3
        \/ key \notin {"ArrowDown", "PageDown", "ArrowUp", "PageUp", "Home", "End"}
     THEN /\ Log("ignored")
          /\ UNCHANGED <<virtualScroll, videoCurrentTime, text, titleVars,
                         trump, inputHistory>>
     ELSE /\ Log("key")
          /\ lastRaw' = KeyTarget(virtualScroll, key, innerHeight \div 2, maxScroll)
          /\ virtualScroll' =
               keyScroll(virtualScroll, key, innerHeight \div 2, maxScroll)
          /\ ApplyBranch(keyBranch(virtualScroll', Extents, Duration))
  /\ UNCHANGED <<innerHeight, extentVars, readyState, videoDuration,
                 videoPaused, isReady, setupPc, listening, bodyLocked,
                 trumpReadyState, planeVars>>

\* --------------------------------------------------------------- timers
\* the oldest pending setTimeout callback runs (all delays are 1000 ms, so
\* callbacks run in the order they were scheduled)
TimerFire ==
  /\ timers # <<>>
  /\ LET rest == [Title EXCEPT !.timers = Tail(timers)]
     IN  SetTitle(IF Head(timers) = "settle"
                  THEN settleCallback(rest)
                  ELSE exitCallback(rest))
  /\ Log(Head(timers))
  /\ UNCHANGED <<innerHeight, extentVars, virtualScroll, readyState,
                 videoDuration, videoCurrentTime, videoPaused, isReady, setupPc,
                 listening, bodyLocked, text, trump, trumpReadyState, rtVars, inputHistory, planeVars>>

\* ------------------------------------------------------- specification
Wheel == \E d \in WheelDeltas : handleWheel(d) /\ UNCHANGED rtVars

Key == \E k \in Keys : handleKeyDown(k) /\ UNCHANGED rtVars

Media ==
  \/ \E r \in ReadyStates, allowed \in BOOLEAN : ReadyStateChange(r, allowed)
  \/ TrumpLoaded

Window == \E h \in InnerHeights : Resize(h)

\* the scene's life from the effect to its cleanup at the setup viewport
\* height; resizes are part of SpecScroll
Next ==
  \/ Wheel
  \/ Key
  \/ TimerFire
  \/ SetupFinish
  \/ Media
  \/ Teardown

Spec == Init /\ [][Next]_vars

\* the video was buffered when the effect ran: setup is at its play probe
InitFair ==
  /\ Init
  /\ readyState = 4

\* the event loop runs every setTimeout callback whose delay has elapsed
SpecFair == InitFair /\ [][Next]_vars /\ WF_vars(TimerFire)

\* ------------------------------------------------- the effect's two passes
\* the component after its first render: basePath is null, no video element is
\* rendered, and the effect body has returned at its first line, registering
\* nothing and returning no cleanup
InitMount ==
  /\ innerHeight \in SetupHeights
  /\ setupHeight = 0
  /\ videoScrollMax = 0
  /\ textExitScrollMax = 0
  /\ elCapitanSlideUpMax = 0
  /\ elCapitanSlideRightMax = 0
  /\ trumpVideoFadeMax = 0
  /\ maxScroll = 0
  /\ virtualScroll = 0
  /\ readyState = 0
  /\ videoDuration = 0
  /\ videoCurrentTime = Q(0)
  /\ videoPaused = TRUE
  /\ isReady = FALSE
  /\ setupPc = "no_base_path"
  /\ listening = FALSE
  /\ bodyLocked = FALSE
  /\ text = InitialText
  /\ elCapitanState = "hidden"
  /\ pendingSlideRight = FALSE
  /\ showElCapitan = FALSE
  /\ elCapitanStyle = StyleBelow
  /\ timers = <<>>
  /\ trump = [triggered |-> FALSE, opacity |-> 0, pointerEvents |-> "none",
              paused |-> TRUE, currentTime |-> Q(0)]
  /\ trumpReadyState = 0
  /\ lastEvent = "env"
  /\ before = [state |-> "hidden", pending |-> FALSE]
  /\ lastRaw = 0
  /\ lastBranch = NoBranch
  /\ seeks = <<>>
  /\ playProbe = "none"
  /\ rtMode = "off"
  /\ rtStack = <<>>
  /\ rtExpect = <<>>
  /\ rtClamped = FALSE
  /\ PlaneAtRest

\* basePath has been set and the effect runs again: with the video element
\* mounted the whole body runs, up to where setup() first waits (the states of
\* Init); without it the body returns at `if (!video) return`
RunEffect ==
  /\ setupPc = "no_base_path"
  /\ \/ /\ setupHeight' = innerHeight
        /\ LET e == PhaseExtents(innerHeight)
           IN  /\ videoScrollMax' = e.videoScrollMax
               /\ textExitScrollMax' = e.textExitScrollMax
               /\ elCapitanSlideUpMax' = e.elCapitanSlideUpMax
               /\ elCapitanSlideRightMax' = e.elCapitanSlideRightMax
               /\ trumpVideoFadeMax' = e.trumpVideoFadeMax
               /\ maxScroll' = TotalScroll(e)
        /\ videoDuration' \in Durations
        /\ readyState' \in ReadyStates
        /\ listening' = TRUE
        /\ bodyLocked' = TRUE
        /\ \E allowed \in BOOLEAN :
             IF readyState' >= 3
             THEN LET r == setupResume(allowed)
                  IN  /\ isReady' = TRUE
                      /\ videoCurrentTime' = r.videoCurrentTime
                      /\ videoPaused' = r.videoPaused
                      /\ setupPc' = r.setupPc
             ELSE /\ setupPc' = "wait_canplaythrough"
                  /\ UNCHANGED <<isReady, videoCurrentTime, videoPaused>>
        /\ Log("env")
        /\ UNCHANGED <<innerHeight, virtualScroll, text, titleVars, trump,
                       trumpReadyState, rtVars, inputHistory, planeVars>>
     \/ /\ setupPc' = "no_video"
        /\ Log("env")
        /\ UNCHANGED <<innerHeight, extentVars, virtualScroll, readyState,
                       videoDuration, videoCurrentTime, videoPaused, isReady,
                       listening, bodyLocked, text, titleVars, trump,
                       trumpReadyState, rtVars, inputHistory, planeVars>>

\* the effect ran to its end: it registered the listeners and returned the
\* cleanup
EffectRan == setupPc \notin {"no_base_path", "no_video"}

NextLifecycle ==
  \/ RunEffect
  \/ Wheel
  \/ Key
  \/ TimerFire
  \/ SetupFinish
  \/ Media
  \/ Teardown

SpecLifecycle == InitMount /\ [][NextLifecycle]_vars

\* ------------------------------------------- every wheel delta, scene set up
\* wheel deltas of the fine-grained specification: every integer up to this
MaxWheel == 12

\* the scene once setup() has returned, both videos buffered
InitReady ==
  /\ InitClosure
  /\ readyState = 4
  /\ isReady = TRUE
  /\ videoCurrentTime = startOffset
  /\ videoPaused = TRUE
  /\ setupPc = "done"
  /\ text = updateTextPosition(Q(0), Q(0))
  /\ trumpReadyState = 2
  /\ lastEvent = "setup"

InitScroll ==
  /\ InitReady
  /\ PlaneAtRest
  /\ videoDuration \in Durations
  /\ rtMode = "off"

WheelAny == \E d \in -MaxWheel .. MaxWheel : handleWheel(d) /\ UNCHANGED rtVars

NextScroll ==
  \/ WheelAny
  \/ Key
  \/ TimerFire
  \/ Window

SpecScroll == InitScroll /\ [][NextScroll]_vars

\* --------------------------------------- wheel input only, scene set up
NextMomentum ==
  \/ WheelAny
  \/ TimerFire

SpecMomentum == InitScroll /\ [][NextMomentum]_vars

\* ------------------------------------- scene set up, either kind of duration
InitTimestamp ==
  /\ InitReady
  /\ PlaneAtRest
  /\ videoDuration \in ReportedDurations
  /\ rtMode = "off"

NextTimestamp ==
  \/ Wheel
  \/ Key
  \/ TimerFire

SpecTimestamp == InitTimestamp /\ [][NextTimestamp]_vars

\* ------------------------------------------------------------ round trip
\* wheel deltas of the forward pass
RoundTripDeltas == {-5, 3, 5, 45, 65, 100}

\* the continuous outputs: welcome-text offset and opacity, overlay opacity,
\* reveal-image opacity, primary-video opacity
Outputs ==
  [translateY |-> text.translateY, opacity |-> text.opacity,
   darkOpacity |-> text.darkOpacity, waveOpacity |-> text.waveOpacity,
   videoOpacity |-> text.videoOpacity]

\* forward pass: a wheel event with delta d; the delta and the outputs before
\* it are pushed
RoundTripForward(d) ==
  /\ rtMode = "fwd"
  /\ Len(rtStack) < MaxRoundTrip
  /\ handleWheel(d)
  /\ rtStack' = Append(rtStack, [delta |-> d, before |-> Outputs])
  /\ rtClamped' =
       (rtClamped \/ (Abs(d) >= MomentumThreshold
                        /\ (virtualScroll + d < 0 \/ virtualScroll + d > maxScroll)))
  /\ UNCHANGED <<rtMode, rtExpect>>

\* the forward pass ends
RoundTripTurn ==
  /\ rtMode = "fwd"
  /\ rtStack # <<>>
  /\ rtMode' = "back"
  /\ UNCHANGED <<innerHeight, extentVars, virtualScroll, readyState,
                 videoDuration, videoCurrentTime, videoPaused, isReady, setupPc,
                 listening, bodyLocked, text, titleVars, trump, trumpReadyState,
                 lastEvent, before, inputHistory, rtStack, rtExpect,
                 rtClamped, seeks, playProbe, planeVars>>

\* backward pass: a wheel event with the negated delta on top of the stack;
\* the outputs recorded before that delta are what it has to restore
RoundTripBack ==
  /\ rtMode = "back"
  /\ rtStack # <<>>
  /\ handleWheel(-rtStack[Len(rtStack)].delta)
  /\ rtStack' = SubSeq(rtStack, 1, Len(rtStack) - 1)
  /\ rtExpect' = <<rtStack[Len(rtStack)].before>>
  /\ UNCHANGED <<rtMode, rtClamped>>

RoundTripStep ==
  \/ \E d \in RoundTripDeltas : RoundTripForward(d)
  \/ RoundTripTurn
  \/ RoundTripBack

NextRoundTrip ==
  \/ RoundTripStep
  \/ TimerFire

InitRoundTrip ==
  /\ InitReady
  /\ PlaneAtRest
  /\ videoDuration \in Durations
  /\ rtMode = "fwd"

SpecRoundTrip == InitRoundTrip /\ [][NextRoundTrip]_vars

\* ---------------------------------------------- reveal image: ImagePlane
\* mutant: the cropped margin is not added to the pointer UV
coverUV_NoOffset(a, vp, ptr) ==
  LET containerAspect == Rat(vp.width, vp.height)
      screenX == RDiv(RAdd(ptr.x, Q(1)), Q(2))
      screenY == RDiv(RAdd(ptr.y, Q(1)), Q(2))
  IN  IF RLt(containerAspect, a)
      THEN [x |-> RMul(screenX, RDiv(containerAspect, a)), y |-> screenY]
      ELSE [x |-> screenX, y |-> RMul(screenY, RDiv(a, containerAspect))]

\* the pointer UV useFrame computes for image aspect ratio a, viewport vp and
\* pointer ptr (normalized device coordinates)
coverUV(a, vp, ptr) ==
  LET containerAspect == Rat(vp.width, vp.height)
      screenX == RDiv(RAdd(ptr.x, Q(1)), Q(2))
      screenY == RDiv(RAdd(ptr.y, Q(1)), Q(2))
  IN  IF RLt(containerAspect, a)
      THEN LET visibleWidthRatio == RDiv(containerAspect, a)
               offsetX == RDiv(RSub(Q(1), visibleWidthRatio), Q(2))
           IN  [x |-> RAdd(offsetX, RMul(screenX, visibleWidthRatio)),
                y |-> screenY]
      ELSE LET visibleHeightRatio == RDiv(a, containerAspect)
               offsetY == RDiv(RSub(Q(1), visibleHeightRatio), Q(2))
           IN  [x |-> screenX,
                y |-> RAdd(offsetY, RMul(screenY, visibleHeightRatio))]

\* <planeGeometry args={[2, 2]} />: width and height of the plane geometry,
\* whose local coordinates run from -1 to 1 and whose uv runs from 0 to 1
PlaneSize == 2

\* the mesh scale (useMemo): cover-fit factors from the viewport size, which
\* useThree() gives in world units visible at the plane's depth
scale(a, vp) ==
  LET containerAspect == Rat(vp.width, vp.height)
  IN  IF RLt(containerAspect, a)
      THEN [x |-> RMul(Q(vp.height), a), y |-> Q(vp.height)]
      ELSE [x |-> Q(vp.width), y |-> RDiv(Q(vp.width), a)]

\* the uv (vUv of the vertex shader) of the point of the scaled plane drawn
\* under the pointer ptr: the pointer's normalized device coordinates span the
\* visible world rectangle of vp.width by vp.height centred on the plane
planeUV(a, vp, ptr) ==
  LET worldX == RMul(ptr.x, Rat(vp.width, 2))
      worldY == RMul(ptr.y, Rat(vp.height, 2))
      localX == RDiv(worldX, scale(a, vp).x)
      localY == RDiv(worldY, scale(a, vp).y)
  IN  [x |-> RAdd(RDiv(localX, Q(PlaneSize)), Rat(1, 2)),
       y |-> RAdd(RDiv(localY, Q(PlaneSize)), Rat(1, 2))]

frameVars == <<isMouseInCanvas, hasEntered, mouseActive, uMouseActive, uTime,
               fragment>>

sceneVars == <<innerHeight, extentVars, virtualScroll, readyState,
               videoDuration, videoCurrentTime, videoPaused, isReady, setupPc,
               listening, bodyLocked, text, titleVars, trump, trumpReadyState,
               rtVars, inputHistory>>

\* mutant: the scalar is set to its target
easeMouseActive_Snap(current, inCanvas) ==
  IF inCanvas THEN Q(1) ELSE Q(0)

\* mouseActiveRef.current += (targetActive - mouseActiveRef.current) * 0.08
easeMouseActive(current, inCanvas) ==
  LET targetActive == IF inCanvas THEN Q(1) ELSE Q(0)
  IN  RAdd(current, RMul(RSub(targetActive, current), easingSpeed))

\* the per-frame callback: the time uniform advances, hasEnteredRef is raised
\* when the pointer is over the canvas, the mouse-active scalar is eased and
\* written to its uniform, and the pointer UV is written to uMouse when
\* hasEnteredRef is set
useFrame ==
  /\ uTime < MaxFrames
  /\ uTime' = uTime + 1
  /\ hasEntered' = (isMouseInCanvas \/ hasEntered)
  /\ mouseActive' = easeMouseActive(mouseActive, isMouseInCanvas)
  /\ uMouseActive' = mouseActive'
  /\ uMouse' = IF hasEntered'
                THEN coverUV(aspectRatio, viewport, pointer)
                ELSE uMouse
  /\ Log("frame")
  /\ UNCHANGED <<sceneVars, aspectRatio, viewport, pointer, isMouseInCanvas,
                 fragment>>

\* the pointer moves over the canvas
PointerMove(x, y) ==
  /\ pointer # [x |-> x, y |-> y]
  /\ pointer' = [x |-> x, y |-> y]
  /\ Log("env")
  /\ UNCHANGED <<sceneVars, aspectRatio, viewport, uMouse, frameVars>>

\* the canvas is resized
ViewportResize(w, h) ==
  /\ viewport # [width |-> w, height |-> h]
  /\ viewport' = [width |-> w, height |-> h]
  /\ Log("env")
  /\ UNCHANGED <<sceneVars, aspectRatio, pointer, uMouse, frameVars>>

PointerInput == \E x \in PointerCoords, y \in PointerCoords : PointerMove(x, y)

CanvasInput == \E w \in ViewportSizes, h \in ViewportSizes : ViewportResize(w, h)

NextPointer ==
  \/ useFrame
  \/ PointerInput
  \/ CanvasInput

\* the image has loaded and the canvas is mounted over the scene
InitPointer ==
  /\ InitReady
  /\ videoDuration \in Durations
  /\ rtMode = "off"
  /\ aspectRatio \in AspectRatios
  /\ viewport \in [width : ViewportSizes, height : ViewportSizes]
  /\ pointer = [x |-> Q(0), y |-> Q(0)]
  /\ RefsAtRest
  /\ fragment = NoFragment

SpecPointer == InitPointer /\ [][NextPointer]_vars

\* ------------------------------------ every callback of the page together
\* className of the primary video element: opacity-100 once isReady is true,
\* opacity-0 before
videoClassOpacity == IF isReady THEN Q(1) ELSE Q(0)

\* mutant: the error handler leaves isReady as it is
onError_KeepsWaiting ==
  /\ setupPc \notin {"no_base_path", "no_video"}
  /\ ~isReady
  /\ Log("error")
  /\ UNCHANGED <<innerHeight, extentVars, virtualScroll, readyState,
                 videoDuration, videoCurrentTime, videoPaused, isReady,
                 setupPc, listening, bodyLocked, text, titleVars, trump,
                 trumpReadyState, rtVars, inputHistory, planeVars>>

\* onError of the primary video element: setIsReady(true)
onError ==
  /\ setupPc \notin {"no_base_path", "no_video"}
  /\ ~isReady
  /\ isReady' = TRUE
  /\ Log("error")
  /\ UNCHANGED <<innerHeight, extentVars, virtualScroll, readyState,
                 videoDuration, videoCurrentTime, videoPaused, setupPc,
                 listening, bodyLocked, text, titleVars, trump, trumpReadyState,
                 rtVars, inputHistory, planeVars>>

\* the primary video fails to load: it was not buffered when the effect ran
InitError ==
  /\ Init
  /\ readyState = 1

NextError ==
  \/ onError
  \/ Key
  \/ TimerFire
  \/ SetupFinish
  \/ Media

SpecError == InitError /\ [][NextError]_vars

\* the page with its canvas: the video was buffered when the effect ran, so
\* setup() is at its play probe while input, timers and frames go on
InitEvents ==
  /\ Init
  /\ readyState = 4

NextEvents ==
  \/ Wheel
  \/ Key
  \/ TimerFire
  \/ SetupFinish
  \/ useFrame

SpecEvents == InitEvents /\ [][NextEvents]_vars

\* -------------------------------------- reveal image: pointer presence
\* setIsMouseInCanvas(b): onMouseEnter, onPointerOver (true) and onMouseLeave,
\* onPointerOut (false) of the wrapper and of the canvas
setIsMouseInCanvas(b) ==
  /\ isMouseInCanvas # b
  /\ isMouseInCanvas' = b
  /\ Log("env")
  /\ UNCHANGED <<sceneVars, aspectRatio, viewport, pointer, uMouse, hasEntered,
                 mouseActive, uMouseActive, uTime, fragment>>

PresenceInput == \E b \in BOOLEAN : setIsMouseInCanvas(b)

NextPresence ==
  \/ useFrame
  \/ PointerInput
  \/ PresenceInput

\* the canvas is mounted over the scene, the pointer outside it
InitPresence ==
  /\ InitReady
  /\ PlaneAtRest
  /\ videoDuration \in Durations
  /\ rtMode = "off"

SpecPresence == InitPresence /\ [][NextPresence]_vars

\* ------------------------------------------ reveal image: fragment shader
\* luminance of the sampled texel
GrayLevels == {Rat(k, 16) : k \in 0..16}
\* window coordinates of the fragment (gl_FragCoord.xy is the pixel centre)
FragCoords == 0..7
\* the uPixelSize uniform: the page passes 2, the component's default is 3
PixelSizes == {2, 3}

\* float pattern[16]
pattern == <<0, 8, 2, 10, 12, 4, 14, 6, 3, 11, 1, 9, 15, 7, 13, 5>>

\* bayer4x4(pos): the pattern slot of a pixel block, divided by 16
bayer4x4(pos) ==
  LET x == pos.x % 4
      y == pos.y % 4
      index == x + y * 4
  IN  Rat(pattern[index + 1], 16)

\* floor(gl_FragCoord.xy / uPixelSize), gl_FragCoord being (x + 0.5, y + 0.5)
pixelCoord(f) ==
  [x |-> (2 * f.x + 1) \div (2 * f.uPixelSize),
   y |-> (2 * f.y + 1) \div (2 * f.uPixelSize)]

\* mutant: the dither value is added without being centred on 0
adjusted_NoCentre(gray, dither) ==
  RAdd(gray, RMul(dither, Rat(1, 2)))

\* float adjusted = gray + (dither - 0.5) * 0.5
adjusted(gray, dither) ==
  RAdd(gray, RMul(RSub(dither, Rat(1, 2)), Rat(1, 2)))

\* the 3-level quantization of the perturbed luminance
quantized(adj) ==
  IF RLt(adj, Rat(33, 100)) THEN Q(0)
  ELSE IF RLt(adj, Rat(66, 100)) THEN Rat(1, 2)
  ELSE Q(1)

\* fragmentShader.main, its dithering and quantization: bwColor of a fragment
main ==
  /\ fragment.bwColor = <<>>
  /\ fragment # NoFragment
  /\ LET dither == bayer4x4(pixelCoord(fragment))
     IN  fragment' = [fragment EXCEPT
                        !.bwColor = quantized(adjusted(fragment.gray, dither))]
  /\ Log("fragment")
  /\ UNCHANGED <<sceneVars, aspectRatio, viewport, pointer, uMouse,
                 isMouseInCanvas, hasEntered, mouseActive, uMouseActive, uTime>>

NextDither == main

\* a fragment of the canvas is about to be shaded
InitDither ==
  /\ InitReady
  /\ videoDuration \in Durations
  /\ rtMode = "off"
  /\ aspectRatio = <<2, 1>>
  /\ viewport = [width |-> 1, height |-> 1]
  /\ pointer = [x |-> Q(0), y |-> Q(0)]
  /\ RefsAtRest
  /\ fragment \in [gray : GrayLevels, x : FragCoords, y : FragCoords,
                   uPixelSize : PixelSizes, bwColor : {<<>>}]

SpecDither == InitDither /\ [][NextDither]_vars

\* --------------------------------------------------------------- claims
Handled == lastEvent \in {"wheel", "key"}

\* C1: after any sequence of wheel events and ArrowUp/ArrowDown/PageUp/
\* PageDown/Home/End key presses, 0 <= virtualScroll <= maxScroll, and an input
\* asking for a position past either end leaves virtualScroll exactly at that
\* end.
C1_ScrollClamped ==
  /\ 0 <= virtualScroll
  /\ virtualScroll <= maxScroll
  /\ Handled /\ lastRaw > maxScroll => virtualScroll = maxScroll
  /\ Handled /\ lastRaw < 0 => virtualScroll = 0

C1_Witness ==
  lastEvent = "wheel" /\ lastRaw > maxScroll /\ virtualScroll = maxScroll

\* the cumulative upper bounds of the five phases for viewport height h
PhaseUpper(h) == <<4 * h, 6 * h, 7 * h, 8 * h, 12 * h>>

\* phase k claims position p: p lies above the previous phase's upper bound
\* (phase 1 starts at 0) and at or below its own
PhaseClaims(k, p, h) ==
  /\ IF k = 1 THEN 0 <= p ELSE PhaseUpper(h)[k - 1] < p
  /\ p <= PhaseUpper(h)[k]

\* C2: the phase extents are 4H, 2H, 1H, 1H and 4H for the viewport height H
\* read at setup, maxScroll is 12H, the branch a handler takes for a position
\* is the one phase whose range holds it, and none of this changes when the
\* viewport height does.
C2_PhasePartition ==
  /\ videoScrollMax = 4 * setupHeight
  /\ textExitScrollMax = 2 * setupHeight
  /\ elCapitanSlideUpMax = setupHeight
  /\ elCapitanSlideRightMax = setupHeight
  /\ trumpVideoFadeMax = 4 * setupHeight
  /\ maxScroll = 12 * setupHeight
  /\ Cardinality({k \in 1 .. 5 : PhaseClaims(k, virtualScroll, setupHeight)}) = 1
  /\ lastBranch.phase # 0 =>
       PhaseClaims(lastBranch.phase, virtualScroll, setupHeight)

C2_Witness ==
  /\ innerHeight # setupHeight
  /\ lastEvent = "wheel"
  /\ lastBranch.phase = 5
  /\ virtualScroll = 8 * setupHeight + 1

\* C3: a position equal to a cumulative boundary 4H, 6H, 7H or 8H is handled
\* as the earlier of the two adjoining phases, with the progress that phase
\* computes equal to 1; position 0 is phase 1 with progress 0.
C3_BoundaryToEarlierPhase ==
  lastBranch.phase # 0 =>
    /\ virtualScroll = 0 =>
         lastBranch.phase = 1 /\ lastBranch.progress = Q(0)
    /\ virtualScroll = 4 * setupHeight =>
         lastBranch.phase = 1 /\ lastBranch.progress = Q(1)
    /\ virtualScroll = 6 * setupHeight =>
         lastBranch.phase = 2 /\ lastBranch.exitProgress = Q(1)
    /\ virtualScroll = 7 * setupHeight =>
         lastBranch.phase = 3 /\ lastBranch.signal = 1
    /\ virtualScroll = 8 * setupHeight =>
         lastBranch.phase = 4 /\ lastBranch.signal = 2

C3_Witness ==
  /\ lastEvent = "wheel"
  /\ virtualScroll = 7 * setupHeight
  /\ lastBranch.phase = 3
  /\ elCapitanState = "sliding-up"

Clamp(x, lo, hi) == IF x < lo THEN lo ELSE IF x > hi THEN hi ELSE x

\* C4 as stated: every wheel delta and every arrow/page key handled while the
\* primary video is ready sets virtualScroll to
\* clamp(old + signed amount, 0, maxScroll).
C4_EveryDeltaClamped ==
  [][/\ \A d \in -MaxWheel .. MaxWheel :
          readyState >= 3 /\ handleWheel(d) =>
            virtualScroll' = Clamp(virtualScroll + d, 0, maxScroll)
     /\ \A k \in {"ArrowDown", "PageDown", "ArrowUp", "PageUp"} :
          readyState >= 3 /\ handleKeyDown(k) =>
            virtualScroll' =
              Clamp(virtualScroll
                      + (IF k \in {"ArrowDown", "PageDown"} THEN 1 ELSE -1)
                          * (innerHeight \div 2),
                    0, maxScroll)]_vars

\* C4 amended: the same for every wheel delta with |deltaY| >= 5 and for every
\* arrow/page key; a wheel delta with |deltaY| < 5 leaves virtualScroll alone.
C4_HandledDeltaClamped ==
  [][/\ \A d \in -MaxWheel .. MaxWheel :
          readyState >= 3 /\ handleWheel(d) =>
            virtualScroll' =
              IF Abs(d) >= 5
              THEN Clamp(virtualScroll + d, 0, maxScroll)
              ELSE virtualScroll
     /\ \A k \in {"ArrowDown", "PageDown", "ArrowUp", "PageUp"} :
          readyState >= 3 /\ handleKeyDown(k) =>
            virtualScroll' =
              Clamp(virtualScroll
                      + (IF k \in {"ArrowDown", "PageDown"} THEN 1 ELSE -1)
                          * (innerHeight \div 2),
                    0, maxScroll)]_vars

C4_Witness ==
  /\ lastEvent = "key"
  /\ innerHeight = 20
  /\ lastRaw < 0
  /\ virtualScroll = 0

\* each undo restored the outputs recorded before the delta it undoes, and the
\* last undo brought the position back to 0
RoundTripRestored ==
  rtMode = "back" /\ rtExpect # <<>> =>
    /\ Outputs = rtExpect[1]
    /\ rtStack = <<>> => virtualScroll = 0

\* C5 as stated: for every sequence of wheel deltas d1..dn applied from
\* position 0, applying -dn, ..., -d1 returns virtualScroll to 0 and after the
\* step undoing d(k+1) the continuous outputs equal those after dk.
C5_RoundTripAlways == RoundTripRestored

\* C5 amended: the same for every sequence in which no forward delta is cut by
\* the clamp (every partial sum stays within [0, maxScroll]).
C5_RoundTripUnclamped == ~rtClamped => RoundTripRestored

C5_Witness ==
  /\ rtMode = "back"
  /\ rtStack = <<>>
  /\ ~rtClamped
  /\ rtExpect # <<>>
  /\ lastEvent = "wheel"
  /\ lastRaw = 0
  /\ rtExpect[1] = Outputs
  /\ timers # <<>>

\* ----------------------------------------------------- title machine
\* the step is an input event or the end of setup() that passes phaseSignal k
\* to updateElCapitanPosition
Signals(k) ==
  \/ lastEvent' \in {"wheel", "key"} /\ lastBranch'.signal = k
  \/ k = 0 /\ lastEvent' = "setup"

\* the step is the settle timer's callback
SettleFires == lastEvent' = "settle"

\* C6: phaseSignal=2 received during the slide-up leaves the title in
\* sliding-up with pendingSlideRight = true; when a settle timer then fires,
\* the title goes to sliding-right with the flag cleared in that one callback,
\* never resting in centered.
C6_DeferredSlideRight ==
  [][/\ elCapitanState = "sliding-up" /\ Signals(2) =>
          elCapitanState' = "sliding-up" /\ pendingSlideRight'
     /\ elCapitanState = "sliding-up" /\ pendingSlideRight /\ SettleFires =>
          /\ elCapitanState' = "sliding-right"
          /\ ~pendingSlideRight'
          /\ elCapitanStyle' = StyleRight
          /\ timers' = Append(Tail(timers), "exit")]_vars

C6_Witness ==
  /\ lastEvent = "settle"
  /\ before = [state |-> "sliding-up", pending |-> TRUE]
  /\ elCapitanState = "sliding-right"
  /\ ~pendingSlideRight

\* C7: a settle timer left over from a slide-up that a reset cancelled causes
\* no title transition: while the title is sliding-up again and the timer of
\* that later slide-up is still pending behind it, the older timer's callback
\* leaves the title state alone.
C7_StaleSettleIgnored ==
  [][SettleFires /\ (\E i \in 2 .. Len(timers) : timers[i] = "settle") =>
       elCapitanState' = elCapitanState]_vars

\* C8: phaseSignal=0 in any non-hidden state sets the state to hidden, clears
\* pendingSlideRight and the text-reveal trigger; the flag is raised only by
\* phaseSignal=2 during a slide-up and a settle callback starts the slide-right
\* only if the flag is raised, so a request deferred before the reset is not
\* fired after it.
C8_ResetCancels ==
  [][/\ elCapitanState # "hidden" /\ Signals(0) =>
          /\ elCapitanState' = "hidden"
          /\ ~pendingSlideRight'
          /\ ~showElCapitan'
     /\ ~pendingSlideRight /\ pendingSlideRight' =>
          elCapitanState = "sliding-up" /\ Signals(2)
     /\ SettleFires /\ elCapitanState' = "sliding-right"
          /\ elCapitanState # "sliding-right" => pendingSlideRight]_vars

C8_Witness ==
  /\ lastEvent \in {"wheel", "key"}
  /\ lastBranch.signal = 0
  /\ before = [state |-> "sliding-up", pending |-> TRUE]
  /\ elCapitanState = "hidden"
  /\ ~pendingSlideRight
  /\ ~showElCapitan
  /\ timers = <<"settle">>

\* C9: phaseSignal=1 in hidden moves the title to sliding-up and starts a
\* settle timer; with timer callbacks run fairly the title never stays in
\* sliding-up forever, and it leaves sliding-up only for centered, for
\* sliding-right (deferred request) or, on a reset, for hidden.
C9_SlideUpSettles ==
  /\ [][/\ elCapitanState = "hidden" /\ Signals(1) =>
             /\ elCapitanState' = "sliding-up"
             /\ timers' = Append(timers, "settle")
        /\ elCapitanState = "sliding-up" /\ elCapitanState' # "sliding-up" =>
             \/ SettleFires /\ elCapitanState' \in {"centered", "sliding-right"}
             \/ Signals(0) /\ elCapitanState' = "hidden"]_vars
  /\ (elCapitanState = "sliding-up") ~> (elCapitanState # "sliding-up")

C9_Witness ==
  /\ lastEvent = "settle"
  /\ before = [state |-> "sliding-up", pending |-> FALSE]
  /\ elCapitanState = "centered"
  /\ timers = <<>>

\* C10: phaseSignal=2 in centered moves the title to sliding-right within the
\* handler; phaseSignal=2 in sliding-up changes only pendingSlideRight, to true.
C10_SlideRightOrDefer ==
  [][/\ elCapitanState = "centered" /\ Signals(2) =>
          /\ elCapitanState' = "sliding-right"
          /\ elCapitanStyle' = StyleRight
          /\ timers' = Append(timers, "exit")
     /\ elCapitanState = "sliding-up" /\ Signals(2) =>
          /\ pendingSlideRight'
          /\ UNCHANGED <<elCapitanState, showElCapitan, elCapitanStyle,
                         timers>>]_vars

C10_Witness ==
  /\ lastEvent \in {"wheel", "key"}
  /\ lastBranch.signal = 2
  /\ before = [state |-> "centered", pending |-> FALSE]
  /\ elCapitanState = "sliding-right"

\* C11: phaseSignal=1 received in exited or in sliding-right sets the title
\* state to centered within that handler, with pendingSlideRight false and the
\* text-reveal trigger set; the title does not pass through hidden or
\* sliding-up and no settle timer is started.
C11_SnapBackToCentered ==
  [][/\ elCapitanState = "exited" /\ Signals(1) =>
          /\ elCapitanState' = "centered"
          /\ ~pendingSlideRight'
          /\ showElCapitan'
          /\ elCapitanStyle' = StyleCenter
          /\ UNCHANGED timers
     /\ elCapitanState = "sliding-right" /\ Signals(1) =>
          /\ elCapitanState' = "centered"
          /\ ~pendingSlideRight'
          /\ showElCapitan'
          /\ elCapitanStyle' = StyleCenter
          /\ UNCHANGED timers]_vars

C11_Witness ==
  /\ lastEvent \in {"wheel", "key"}
  /\ lastBranch.signal = 1
  /\ before.state = "sliding-right"
  /\ elCapitanState = "centered"
  /\ showElCapitan
  /\ timers = <<"exit">>

\* the step is a wheel or keydown event reaching its handler
InputEvent == lastEvent' \in {"wheel", "key", "ignored"}

\* C12: while the primary video's readyState is below 3, every wheel and key
\* event leaves virtualScroll, the title state, pendingSlideRight, both video
\* timestamps and every applied opacity and offset unchanged; the handler
\* returns and issues no timestamp write.
C12_NotReadyNoOp ==
  [][readyState < 3 /\ InputEvent =>
       /\ lastEvent' = "ignored"
       /\ seeks' = <<>>
       /\ UNCHANGED <<virtualScroll, elCapitanState, pendingSlideRight,
                      showElCapitan, elCapitanStyle, timers, videoCurrentTime,
                      trump, text>>]_vars

C12_Witness ==
  /\ lastEvent = "ignored"
  /\ readyState < 3
  /\ virtualScroll > 6 * setupHeight
  /\ elCapitanState = "sliding-up"
  /\ trumpReadyState = 2

\* C13: where the effect returned early (basePath unset, video element absent)
\* neither the body styles nor a listener was ever set; wherever one of them is
\* set the cleanup is there to run, it restores the body styles and removes
\* both listeners, also while setup() still waits for readiness, and nothing
\* that runs afterwards sets them again.
C13_TeardownReleases ==
  /\ [](~EffectRan => ~listening /\ ~bodyLocked)
  /\ [](listening \/ bodyLocked => ENABLED Teardown)
  /\ [][/\ lastEvent' = "teardown" => ~listening' /\ ~bodyLocked'
        /\ EffectRan /\ ~listening => ~listening' /\ ~bodyLocked']_vars

C13_Witness ==
  /\ lastEvent = "teardown"
  /\ setupPc = "wait_canplaythrough"
  /\ ~listening
  /\ ~bodyLocked

\* ------------------------------------------------- continuous outputs
\* the two arguments of the text function for position p and setup viewport
\* height h: progress runs over phase 1 and stays 1, exitProgress runs over
\* phase 2 and stays 1
ProgressAt(p, h) == IF p <= 4 * h THEN Rat(p, 4 * h) ELSE Q(1)

ExitProgressAt(p, h) ==
  IF p <= 4 * h THEN Q(0)
  ELSE IF p <= 6 * h THEN Rat(p - 4 * h, 2 * h)
  ELSE Q(1)

\* C14: for the exitProgress of every position, overlay opacity is
\* min(1, 2 * exitProgress) and reveal-image opacity is
\* max(0, 2 * (exitProgress - 0.5)); exitProgress 0.25 gives overlay 0.5 and
\* reveal 0, exitProgress 0.75 gives overlay 1 and reveal 0.5.
C14_OverlayRevealOpacity ==
  LET e == ExitProgressAt(virtualScroll, setupHeight)
  IN  /\ text.darkOpacity = RMin(Q(1), RMul(Q(2), e))
      /\ text.waveOpacity = RMax(Q(0), RMul(Q(2), RSub(e, Rat(1, 2))))
      /\ e = Rat(1, 4) => text.darkOpacity = Rat(1, 2) /\ text.waveOpacity = Q(0)
      /\ e = Rat(3, 4) => text.darkOpacity = Q(1) /\ text.waveOpacity = Rat(1, 2)

C14_Witness ==
  /\ lastEvent = "wheel"
  /\ ExitProgressAt(virtualScroll, setupHeight) = Rat(1, 4)
  /\ text.darkOpacity = Rat(1, 2)
  /\ text.waveOpacity = Q(0)

\* C15: the reveal image takes pointer events if and only if its opacity for
\* the current position is above 0.5, that is exitProgress above 0.75; the
\* setting follows the position alone, so scrolling back to or below the
\* threshold turns it off again.
C15_PointerThreshold ==
  /\ text.pointerEvents \in {"auto", "none"}
  /\ text.pointerEvents = "auto" <=> RLt(Rat(1, 2), text.waveOpacity)
  /\ text.pointerEvents = "auto" <=>
       RLt(Rat(3, 4), ExitProgressAt(virtualScroll, setupHeight))

\* scrolled back from the title phases (a title timer is still pending) to the
\* threshold itself
C15_Witness ==
  /\ lastEvent = "wheel"
  /\ timers # <<>>
  /\ ExitProgressAt(virtualScroll, setupHeight) = Rat(3, 4)
  /\ text.waveOpacity = Rat(1, 2)
  /\ text.pointerEvents = "none"

\* the welcome text's offset (vh) and opacity as the four cases give them
WelcomeText(progress, e) ==
  IF e = Q(0)
  THEN IF RLt(progress, Rat(3, 5))
       THEN [translateY |-> RMul(Q(20), RSub(Q(1), RDiv(progress, Rat(3, 5)))),
             opacity |-> RDiv(progress, Rat(3, 5))]
       ELSE [translateY |-> Q(0), opacity |-> Q(1)]
  ELSE IF RLe(e, Rat(3, 10))
       THEN [translateY |-> RMul(Q(20), RDiv(e, Rat(3, 10))),
             opacity |-> RSub(Q(1), RDiv(e, Rat(3, 10)))]
       ELSE [translateY |-> Q(20), opacity |-> Q(0)]

\* how far the two arguments move in the step, weighted by the slopes of the
\* entrance (1/0.6) and of the re-entry (1/0.3)
ArgumentTravel ==
  RAdd(RDiv(RAbs(RSub(ProgressAt(virtualScroll', setupHeight),
                      ProgressAt(virtualScroll, setupHeight))),
            Rat(3, 5)),
       RDiv(RAbs(RSub(ExitProgressAt(virtualScroll', setupHeight),
                      ExitProgressAt(virtualScroll, setupHeight))),
            Rat(3, 10)))

C17_PrimaryTimestamp ==
  Handled =>
    LET d == IF videoDuration = 0 THEN Q(8) ELSE Q(videoDuration)
    IN  videoCurrentTime =
          IF virtualScroll <= 4 * setupHeight
          THEN RAdd(Rat(1, 10),
                    RMul(RSub(d, Rat(1, 10)),
                         Rat(virtualScroll, 4 * setupHeight)))
          ELSE d

C17_Witness ==
  /\ lastEvent = "key"
  /\ videoDuration = 0
  /\ virtualScroll = 2 * setupHeight
  /\ videoCurrentTime = Rat(81, 20)

\* ------------------------------------------------------- video scrubbing
\* C18: every timestamp write scroll handling issues to a video, primary or
\* secondary, is issued only when the video's current timestamp and the target
\* differ by more than 0.01.
C18_SeeksThresholded ==
  [][\A i \in DOMAIN seeks' : seeks'[i].apart]_vars

\* C19: at every timestamp write scroll handling issues to a video, that video
\* is paused, however the input event interleaves with setup's play/pause
\* probe.
C19_ScrubOnlyPaused ==
  [][\A i \in DOMAIN seeks' : seeks'[i].paused]_vars

\* ------------------------------------------------------- pointer remap
\* C20: after a frame, for image aspect a and viewport aspect c, the pointer
\* UV is x = (1 - c/a)/2 + screenX * (c/a), y = screenY when a > c, and
\* x = screenX, y = (1 - a/c)/2 + screenY * (a/c) when a <= c, with
\* screenX/Y = (pointer + 1)/2; for a = 2, c = 1 the viewport centre maps to
\* (0.5, 0.5) and the left edge to x = 0.25.
C20_CoverFitPointer ==
  lastEvent = "frame" =>
    LET a == aspectRatio
        c == Rat(viewport.width, viewport.height)
        screenX == RDiv(RAdd(pointer.x, Q(1)), Q(2))
        screenY == RDiv(RAdd(pointer.y, Q(1)), Q(2))
    IN  /\ RLt(c, a) =>
             /\ uMouse.x = RAdd(RDiv(RSub(Q(1), RDiv(c, a)), Q(2)),
                                RMul(screenX, RDiv(c, a)))
             /\ uMouse.y = screenY
        /\ RLe(a, c) =>
             /\ uMouse.x = screenX
             /\ uMouse.y = RAdd(RDiv(RSub(Q(1), RDiv(a, c)), Q(2)),
                                RMul(screenY, RDiv(a, c)))
        /\ a = Q(2) /\ c = Q(1) /\ pointer.x = Q(0) /\ pointer.y = Q(0) =>
             uMouse = [x |-> Rat(1, 2), y |-> Rat(1, 2)]
        /\ a = Q(2) /\ c = Q(1) /\ pointer.x = Q(-1) => uMouse.x = Rat(1, 4)

C20_Witness ==
  /\ lastEvent = "frame"
  /\ aspectRatio = Q(2)
  /\ viewport = [width |-> 2, height |-> 2]
  /\ pointer = [x |-> Q(-1), y |-> Rat(1, 2)]
  /\ uMouse = [x |-> Rat(1, 4), y |-> Rat(3, 4)]

\* C21: after a frame, the UV in the mouse uniform is the texture UV of the
\* point of the rendered plane (the 2x2 geometry scaled by the cover-fit
\* factors) that lies under the pointer, for every image aspect, viewport and
\* pointer position
C21_RevealUnderPointer ==
  lastEvent = "frame" => uMouse = planeUV(aspectRatio, viewport, pointer)

\* the Bayer value of the block the fragment lies in
DitherOf(f) == bayer4x4(pixelCoord(f))

\* the 16 pattern slots in row order, as the 4x4 Bayer matrix lists them
BayerMatrix == << <<0, 8, 2, 10>>, <<12, 4, 14, 6>>, <<3, 11, 1, 9>>, <<15, 7, 13, 5>> >>

\* C22 as stated: a fragment of luminance 0.5 whose dither value is 0 gets the
\* middle level 0.5
C22_MidGrayDitherZero ==
  (/\ fragment.bwColor # <<>>
   /\ fragment.gray = Rat(1, 2)
   /\ DitherOf(fragment) = Q(0)) => fragment.bwColor = Rat(1, 2)

\* C22 (amended): the dither value of a fragment is the slot of the 4x4 Bayer
\* matrix at its pixel block (column and row modulo 4) over 16; the luminance
\* is perturbed by (dither - 0.5) * 0.5 and the perturbed value is mapped to 0
\* below 0.33, to 0.5 below 0.66 and to 1 otherwise; so luminance 0.5 with
\* dither value 0 is perturbed to 0.25 and quantizes to 0, and luminance 0.5
\* gets the middle level exactly for the slots 3 to 13
C22_DitherQuantization ==
  fragment.bwColor # <<>> =>
    LET col == ((2 * fragment.x + 1) \div (2 * fragment.uPixelSize)) % 4
        row == ((2 * fragment.y + 1) \div (2 * fragment.uPixelSize)) % 4
        slot == BayerMatrix[row + 1][col + 1]
        perturbed == RAdd(fragment.gray, Rat(2 * slot - 16, 64))
    IN  /\ DitherOf(fragment) = Rat(slot, 16)
        /\ RLt(perturbed, Rat(33, 100)) => fragment.bwColor = Q(0)
        /\ (~RLt(perturbed, Rat(33, 100)) /\ RLt(perturbed, Rat(66, 100)))
             => fragment.bwColor = Rat(1, 2)
        /\ ~RLt(perturbed, Rat(66, 100)) => fragment.bwColor = Q(1)
        /\ (fragment.gray = Rat(1, 2) /\ slot = 0) => fragment.bwColor = Q(0)
        /\ fragment.gray = Rat(1, 2) =>
             (fragment.bwColor = Rat(1, 2) <=> slot \in 3..13)

C22_Witness ==
  /\ fragment.bwColor = Q(0)
  /\ fragment.gray = Rat(1, 2)
  /\ DitherOf(fragment) = Q(0)
  /\ fragment.uPixelSize = 2
  /\ fragment.x = 1
  /\ fragment.y = 1

\* C23: the mouse-active scalar starts at 0, stays within [0, 1] whatever
\* frames and pointer enter/leave events happen, and each frame moves it by
\* exactly 0.08 of its remaining distance to the target (1 with the pointer
\* present, 0 otherwise), never onto the target itself; no other step moves it
C23_MouseActiveEased ==
  /\ mouseActive = Q(0)
  /\ [](RLe(Q(0), mouseActive) /\ RLe(mouseActive, Q(1)))
  /\ [][LET target == IF isMouseInCanvas THEN Q(1) ELSE Q(0)
            remaining == RSub(target, mouseActive)
        IN  /\ uTime' # uTime =>
                 /\ RSub(mouseActive', mouseActive) = RMul(Rat(8, 100), remaining)
                 /\ uMouseActive' = mouseActive'
                 /\ mouseActive # target => mouseActive' # target
            /\ uTime' = uTime => UNCHANGED mouseActive]_vars

\* enter, one frame, leave, one frame: 0.08, then 0.92 * 0.08
C23_Witness ==
  /\ lastEvent = "frame"
  /\ ~isMouseInCanvas
  /\ uTime = 2
  /\ mouseActive = Rat(46, 625)
  /\ uMouseActive = mouseActive

\* C24: a frame rendered while pointer presence is inactive leaves the mouse
\* UV uniform as it was, even if the pointer coordinates changed; only a frame
\* rendered while presence is active recomputes it
C24_FrozenWhenAbsent ==
  [][/\ (uTime' # uTime /\ ~isMouseInCanvas) => UNCHANGED uMouse
     /\ uMouse' # uMouse => (uTime' # uTime /\ isMouseInCanvas)]_vars

\* C25: virtualScroll is changed only by the wheel and keydown handlers; setup,
\* the settle and exit timer callbacks, the per-frame callback and the media
\* events leave it unchanged; and the step of a handled input event applies
\* the new position together with everything derived from it (timestamp,
\* welcome text, overlays, title transition, secondary video)
C25_OnlyHandlersMoveScroll ==
  [][/\ virtualScroll' # virtualScroll => lastEvent' \in {"wheel", "key"}
     /\ lastEvent' \in {"setup", "settle", "exit", "frame", "env"}
          => UNCHANGED virtualScroll
     /\ lastEvent' \in {"wheel", "key"} =>
          /\ lastBranch' = wheelBranch(virtualScroll', Extents, Duration)
          /\ videoCurrentTime' = lastBranch'.currentTime
          /\ text' = updateTextPosition(lastBranch'.progress,
                                        lastBranch'.exitProgress)
          /\ Title' = updateElCapitanPosition(lastBranch'.signal, Title)
          /\ trump' = updateTrumpVideo(lastBranch'.trumpProgress, trump,
                                       trumpReadyState)]_vars

\* the position was moved into phase 3 by an input event, setup finished, the
\* settle timer fired and a frame was rendered, the position still where the
\* handler left it
C25_Witness ==
  /\ lastEvent = "frame"
  /\ setupPc = "done"
  /\ elCapitanState = "centered"
  /\ virtualScroll > 0
  /\ lastRaw = virtualScroll
  /\ lastBranch = wheelBranch(virtualScroll, Extents, Duration)

\* C26: when the play() of setup's probe is rejected, setup goes on as if
\* nothing had happened: it ends (no error leaves it), the scene is marked
\* ready, the text position for progress 0 is applied and the title is put
\* in, or left in, its hidden state
C26_ProbeFailureSwallowed ==
  /\ [][(setupPc = "wait_play" /\ videoPaused /\ setupPc' # setupPc) =>
          /\ setupPc' = "done"
          /\ playProbe' = "rejected"
          /\ isReady'
          /\ text' = [translateY |-> Q(20), opacity |-> Q(0),
                      darkOpacity |-> Q(0), waveOpacity |-> Q(0),
                      pointerEvents |-> "none", videoOpacity |-> Q(1)]
          /\ elCapitanState' = "hidden"
          /\ ~pendingSlideRight'
          /\ UNCHANGED <<virtualScroll, listening, bodyLocked>>]_vars
  /\ [](setupPc \in {"wait_canplaythrough", "wait_play", "done"})

\* setup ended after a rejected play(), with input handled before it ended
C26_Witness ==
  /\ playProbe = "rejected"
  /\ setupPc = "done"
  /\ isReady
  /\ elCapitanState = "hidden"
  /\ virtualScroll > 0

\* C27 as stated: after a load error of the primary video the scene is marked
\* ready and the video element is still at zero opacity
C27_ErrorStaysTransparent ==
  lastEvent = "error" => isReady /\ videoClassOpacity = Q(0)

\* C27 (amended): a load error of the primary video marks the scene ready
\* (isReady becomes true) although readiness was not reached: setup stays
\* where it was and nothing else changes; the class of the video element
\* then is opacity-100, so with no inline opacity written yet the element is
\* no longer at zero opacity
C27_ErrorMarksReady ==
  [][lastEvent' = "error" =>
       /\ ~isReady /\ isReady'
       /\ videoClassOpacity = Q(0)
       /\ videoClassOpacity' = Q(1)
       /\ setupPc \in {"wait_canplaythrough", "wait_play"}
       /\ UNCHANGED <<setupPc, readyState, virtualScroll, text, videoPaused,
                      videoCurrentTime, elCapitanState, listening,
                      bodyLocked>>]_vars

\* the error came while setup waited for canplaythrough, no input handled
C27_Witness ==
  /\ lastEvent = "error"
  /\ isReady
  /\ readyState < 3
  /\ setupPc = "wait_canplaythrough"
  /\ text = InitialText
  /\ videoClassOpacity = Q(1)

\* the visuals the phase mapping gives for position p
VisualsAt(p) ==
  LET b == wheelBranch(p, Extents, Duration)
  IN  [text |-> updateTextPosition(b.progress, b.exitProgress),
       hidden |-> (b.signal = 0)]

\* C28: once setup has completed, the applied welcome-text offset and
\* opacity, overlay and reveal-image opacity, pointer interactivity and
\* primary-video opacity, and whether the title is hidden, are those of the
\* phase mapping at the current virtualScroll, also when an input event was
\* handled while setup was awaiting its play probe
C28_VisualsFollowScroll ==
  setupPc = "done" =>
    /\ text = VisualsAt(virtualScroll).text
    /\ (elCapitanState = "hidden") = VisualsAt(virtualScroll).hidden

\* C29: in every reachable state pendingSlideRight implies that the title
\* state is sliding-up; every step that leaves sliding-up clears the flag and
\* no step sets it in another state
C29_PendingOnlySlidingUp ==
  /\ [](pendingSlideRight => elCapitanState = "sliding-up")
  /\ [][/\ (elCapitanState = "sliding-up" /\ elCapitanState' # "sliding-up")
             => ~pendingSlideRight'
        /\ (~pendingSlideRight /\ pendingSlideRight')
             => (elCapitanState = "sliding-up" /\ elCapitanState' = "sliding-up")]_vars

\* the deferred flag is up during the settle window, set by an input event
C29_Witness ==
  /\ pendingSlideRight
  /\ elCapitanState = "sliding-up"
  /\ before = [state |-> "sliding-up", pending |-> FALSE]
  /\ lastEvent \in {"wheel", "key"}

\* C30: whenever the title state is sliding-right or exited, the input event
\* handled last left the position in phase 4 or 5 (phaseSignal 2); a
\* slide-right deferred during the settle window does not fire once the
\* position has gone back to phase 3 before the settle timer elapsed
C30_SlideRightOnlyPastPhase3 ==
  elCapitanState \in {"sliding-right", "exited"} => lastBranch.signal = 2

\* C31: the title leaves hidden only on phaseSignal 1, and then for
\* sliding-up; phaseSignal 2 received in hidden changes neither the title
\* state nor pendingSlideRight nor the text-reveal trigger, style or timers,
\* so an input that takes the position from phase 1 or 2 straight into phase
\* 4 or 5 leaves the title hidden
C31_HiddenSkipsPhase3 ==
  [][/\ (elCapitanState = "hidden" /\ elCapitanState' # "hidden")
          => (Signals(1) /\ elCapitanState' = "sliding-up")
     /\ (elCapitanState = "hidden" /\ Signals(2))
          => UNCHANGED <<elCapitanState, pendingSlideRight, showElCapitan,
                         elCapitanStyle, timers>>
     /\ (/\ lastEvent' \in {"wheel", "key"}
         /\ virtualScroll <= videoScrollMax + textExitScrollMax
         /\ lastBranch'.phase \in {4, 5})
          => (elCapitanState' = "hidden" /\ ~pendingSlideRight'
                /\ ~showElCapitan')]_vars

\* the End key pressed with the title hidden: phase 5, title still hidden
C31_Witness ==
  /\ lastEvent = "key"
  /\ lastRaw = maxScroll
  /\ virtualScroll = maxScroll
  /\ lastBranch.phase = 5
  /\ before = [state |-> "hidden", pending |-> FALSE]
  /\ elCapitanState = "hidden"
  /\ ~showElCapitan
  /\ timers = <<>>

\* C32: in every reachable state the text-reveal trigger showElCapitan is set
\* exactly when the title state is not hidden, and the settle and exit timer
\* callbacks never change it
C32_ShowIffNotHidden ==
  /\ [](showElCapitan <=> elCapitanState # "hidden")
  /\ [][lastEvent' \in {"settle", "exit"} => UNCHANGED showElCapitan]_vars

\* the exit timer has taken the title to exited, the trigger still set
C32_Witness ==
  /\ lastEvent = "exit"
  /\ before = [state |-> "sliding-right", pending |-> FALSE]
  /\ elCapitanState = "exited"
  /\ showElCapitan

\* the scrub target of the secondary video at position p, viewport height h
TrumpTargetAt(p, h) ==
  RMul(RMin(Q(1), Rat(p - 8 * h, 4 * h)), Q(TrumpDuration))

\* C33: after every handled input event the secondary video is shown
\* (opacity 1, pointer events enabled, trumpVideoTriggered true) exactly when
\* the position is in phase 5, its scrub target being
\* min(1, (position - 8H) / 4H) * duration, which a loaded video is paused at
\* up to the seek threshold; the event that leaves phase 5 hides it and, if
\* it is loaded, resets its timestamp to 0
C33_SecondaryVideoInPhase5 ==
  /\ [](Handled =>
          LET inPhase5 == virtualScroll > 8 * setupHeight
          IN  /\ trump.triggered = inPhase5
              /\ trump.opacity = (IF inPhase5 THEN 1 ELSE 0)
              /\ trump.pointerEvents = (IF inPhase5 THEN "auto" ELSE "none")
              /\ inPhase5 =>
                   lastBranch.trumpProgress
                     = RMin(Q(1), Rat(virtualScroll - 8 * setupHeight,
                                      4 * setupHeight))
              /\ (inPhase5 /\ trumpReadyState >= 2) =>
                   /\ trump.paused
                   /\ RLe(RAbs(RSub(trump.currentTime,
                                    TrumpTargetAt(virtualScroll, setupHeight))),
                          Rat(1, 100)))
  /\ [][(/\ lastEvent' \in {"wheel", "key"}
         /\ trump.triggered
         /\ virtualScroll' <= 8 * setupHeight) =>
          /\ ~trump'.triggered
          /\ trump'.opacity = 0
          /\ trump'.pointerEvents = "none"
          /\ trump'.currentTime = (IF trumpReadyState >= 2 THEN Q(0)
                                   ELSE trump.currentTime)]_vars

\* halfway through phase 5 with the secondary video loaded: shown and
\* scrubbed to half its duration
C33_Witness ==
  /\ Handled
  /\ virtualScroll = 10 * setupHeight
  /\ trumpReadyState = 2
  /\ trump.triggered
  /\ trump.opacity = 1
  /\ trump.currentTime = Rat(TrumpDuration, 2)

\* C34: for every resulting virtualScroll and every prior title and
\* secondary-video state, the keydown handler applies exactly what the wheel
\* handler's chain applies at that position: the same video timestamp, text,
\* overlay, reveal and video opacities, phaseSignal and secondary-video
\* progress
C34_KeyMatchesWheel ==
  /\ [](\A vs \in 0..maxScroll :
          keyBranch(vs, Extents, Duration) = wheelBranch(vs, Extents, Duration))
  /\ [][lastEvent' = "key" =>
          /\ lastBranch' = wheelBranch(virtualScroll', Extents, Duration)
          /\ videoCurrentTime' = lastBranch'.currentTime
          /\ text' = updateTextPosition(lastBranch'.progress,
                                        lastBranch'.exitProgress)
          /\ Title' = updateElCapitanPosition(lastBranch'.signal, Title)
          /\ trump' = updateTrumpVideo(lastBranch'.trumpProgress, trump,
                                       trumpReadyState)]_vars

\* a key press that lands inside phase 5 with the secondary video shown
C34_Witness ==
  /\ lastEvent = "key"
  /\ lastBranch.phase = 5
  /\ virtualScroll < maxScroll
  /\ trump.triggered
  /\ elCapitanState = "hidden"

\* C35: a wheel event with |deltaY| < 5 is ignored as trackpad momentum: it
\* leaves virtualScroll, the title state and flags, the video timestamps and
\* every applied opacity and offset unchanged
C35_MomentumIgnored ==
  [][\A d \in (1 - MomentumThreshold) .. (MomentumThreshold - 1) :
       handleWheel(d) =>
         /\ lastEvent' = "ignored"
         /\ UNCHANGED <<virtualScroll, elCapitanState, pendingSlideRight,
                        showElCapitan, elCapitanStyle, timers,
                        videoCurrentTime, videoPaused, trump, text,
                        lastBranch, isReady>>]_vars

\* a small delta arrives in phase 5 while the title is mid-exit with its timer
\* pending and the secondary video shown
C35_Witness ==
  /\ lastEvent = "ignored"
  /\ before = [state |-> "sliding-right", pending |-> FALSE]
  /\ elCapitanState = "sliding-right"
  /\ timers = <<"exit">>
  /\ lastBranch.phase = 5
  /\ trump.triggered
  /\ virtualScroll > 8 * setupHeight

\* the continuous outputs at the end of phase 2
EndOfPhase2 ==
  [translateY |-> Q(20), opacity |-> Q(0), darkOpacity |-> Q(1),
   waveOpacity |-> Q(1), pointerEvents |-> "auto", videoOpacity |-> Q(0)]

\* C36: at every position of phases 3, 4 and 5 the continuous outputs are
\* those of the end of phase 2 (welcome text opacity 0 at offset 20, overlay
\* opacity 1, reveal-image opacity 1 with pointer events enabled, primary
\* video opacity 0), which is also what a handled event in those phases
\* applies; over the whole range overlay and reveal opacity do not decrease
\* with the position, and the reveal opacity is above 0 only where the overlay
\* opacity is 1
C36_PinnedAndMonotone ==
  /\ \A p \in (videoScrollMax + textExitScrollMax + 1) .. maxScroll :
       VisualsAt(p).text = EndOfPhase2
  /\ \A p \in 0 .. maxScroll :
       LET here == VisualsAt(p).text
           next == VisualsAt(Min(maxScroll, p + 1)).text
       IN  /\ RLe(here.darkOpacity, next.darkOpacity)
           /\ RLe(here.waveOpacity, next.waveOpacity)
           /\ RLt(Q(0), here.waveOpacity) => here.darkOpacity = Q(1)
  /\ (Handled /\ lastBranch.phase \in {3, 4, 5}) => text = EndOfPhase2
  /\ RLt(Q(0), text.waveOpacity) => text.darkOpacity = Q(1)

\* a handled event in the middle of phase 4 has applied the pinned outputs
C36_Witness ==
  /\ Handled
  /\ lastBranch.phase = 4
  /\ 2 * virtualScroll = 15 * setupHeight
  /\ text = EndOfPhase2

\* C37: after the effect's cleanup has run, no step changes the title state,
\* pendingSlideRight or isReady: a settle or exit timer still pending at
\* teardown and a setup continuation resumed after it leave the scene state
\* alone
C37_QuietAfterTeardown ==
  [][~listening => UNCHANGED <<elCapitanState, pendingSlideRight, isReady>>]_vars

====
